---- MODULE Spec2Model ----
(***************************************************************************)
(* kelpify(app, options): the bootstrap of a kelp server, as a state       *)
(* machine.  The model follows src/unnamed/part_006, lines 271-721 (the    *)
(* revision with middlewareCheckpoints, alwaysAddedHeaders and             *)
(* snakeDirectory as a method).                                            *)
(*                                                                         *)
(* A run is the call kelpify(app, rawOptions) in a world (what exists on   *)
(* disk), followed by the requests the configured app serves.  The app is  *)
(* its middleware stack, its settings and its listen calls.                *)
(***************************************************************************)
EXTENDS Integers, Sequences, FiniteSets, TLC

VARIABLES
    world,        \* the caller's options and the disk, fixed for the run
    options,      \* kelp.options: the caller's object, written by loadOptions
    stack,        \* the app's stack: app.use / app.all registrations in order
    settings,     \* app.set / app.engine: what view engine the app holds
    listenCalls,  \* app.listen calls, in order: who called, which port
    status,       \* "running", "exited" (process.exit(1)), "rejected", "resolved";
                  \* kelp.js: "running", "crashed" (unhandled rejection)
    pc,           \* index in Steps of the statement kelpify executes next
                  \* (kelp.js: index in LegacySteps)
    phase,        \* inside loadRoutes: "" (not entered), "import", "routes"
    error,        \* the error that ended the run, NoError otherwise
    files,        \* arrayOfFiles: the paths snakeDirectory returned
    routes,       \* loadRoutes' routes array: the loaded route objects
    route,        \* loadRoutes' loop index (0-based, as in for..in)
    log,          \* the "Loaded route" and "Skipped route" lines kelp.info printed
    warnings,     \* what kelp.warn was called about
    served,       \* the last request served and what it invoked
    PORT          \* kelp.js: the module's PORT, written by kelp.settings

vars == <<world, options, stack, settings, listenCalls, status, pc, phase,
          error, files, routes, route, log, warnings, served, PORT>>

(***************************************************************************)
(* Bounds of the model.                                                    *)
(***************************************************************************)
\* how many option keys the caller supplies at once
MaxSupplied == 2
\* how many slots a supplied middlewareCheckpoints object holds
MaxSlots == 2
\* how much a flat routes directory holds: its files plus the fields they supply
MaxListing == 4
\* how many entries (files and directories) a nested routes tree holds
MaxNodes == 3

(***************************************************************************)
(* JavaScript values.  t is what typeof answers, v tells values of one     *)
(* type apart, props are an object's own properties in insertion order.    *)
(***************************************************************************)
Val(t, v) == [t |-> t, v |-> v, props |-> <<>>]
Undefined == Val("undefined", "")
Null == Val("object", "null")
Str(s) == Val("string", s)
Num(s) == Val("number", s)
Bool(b) == Val("boolean", IF b THEN "true" ELSE "false")
Fn(name) == Val("function", name)
Obj(props) == [t |-> "object", v |-> "", props |-> props]
Prop(k, val) == [k |-> k, val |-> val]

TypeOf(x) == x.t

\* ToBoolean, as the conditional operator applies it
Truthy(x) ==
    CASE x.t = "undefined" -> FALSE
      [] x.t = "object" -> x # Null
      [] x.t = "string" -> x.v # ""
      [] x.t = "number" -> x.v \notin {"0", "NaN"}
      [] x.t = "boolean" -> x.v = "true"
      [] OTHER -> TRUE

\* obj[key] for a value that is neither null nor undefined
Get(obj, key) ==
    IF \E i \in 1..Len(obj.props) : obj.props[i].k = key
    THEN obj.props[CHOOSE i \in 1..Len(obj.props) : obj.props[i].k = key].val
    ELSE Undefined

\* the keys a for..in over obj visits, in order (none for null)
KeysOf(obj) == [i \in 1..Len(obj.props) |-> obj.props[i].k]

\* String.prototype.toUpperCase on the strings of the model
ToUpperCase(s) ==
    CASE s = "get" -> "GET"
      [] s = "post" -> "POST"
      [] s = "Post" -> "POST"
      [] s = "fetch" -> "FETCH"
      [] s = "x-powered-by" -> "X-POWERED-BY"
      [] s = "X-Powered-By" -> "X-POWERED-BY"
      [] s = "development" -> "DEVELOPMENT"
      [] s = "production" -> "PRODUCTION"
      [] OTHER -> s

\* String.prototype.toLowerCase on the header names of the model
ToLowerCase(s) ==
    CASE s = "X-Powered-By" -> "x-powered-by"
      [] s = "X-POWERED-BY" -> "x-powered-by"
      [] s = "X-Frame-Options" -> "x-frame-options"
      [] OTHER -> s

(***************************************************************************)
(* Errors.                                                                 *)
(***************************************************************************)
Err(name, kind, key, expected, idx) ==
    [name |-> name, kind |-> kind, key |-> key, expected |-> expected, idx |-> idx]
NoError == Err("", "", "", "", 0)
KelpException(kind, key, expected, idx) == Err("KelpException", kind, key, expected, idx)
TypeError(what) == Err("TypeError", what, "", "", 0)

(***************************************************************************)
(* loadOptions.                                                            *)
(***************************************************************************)
OptionKeys ==
    <<"routesDirectory", "publicDirectory", "viewsDirectory", "viewEngine",
      "notFoundHandler", "errorHandler", "methodNotAllowedHandler",
      "middlewareCheckpoints", "alwaysAddedHeaders", "port", "environment",
      "autostart">>

OptionKeySet == {OptionKeys[i] : i \in 1..Len(OptionKeys)}

CheckpointNames ==
    <<"beforeRouteLoad", "afterRouteLoad", "beforeBuiltinMiddlewareRegister",
      "afterBuiltinMiddlewareRegister", "before404Register", "after404Register",
      "beforeErrorRegister", "afterErrorRegister", "beforeServe">>

CheckpointSet == {CheckpointNames[i] : i \in 1..Len(CheckpointNames)}

\* __dirname is process.cwd(); the default directories are absolute paths
defaultOptions ==
    [routesDirectory |-> Str("/app/routes"),
     publicDirectory |-> Str("/app/public"),
     viewsDirectory |-> Str("/app/views"),
     viewEngine |-> Str("none"),
     notFoundHandler |-> Fn("defaultNotFound"),
     errorHandler |-> Fn("defaultError"),
     methodNotAllowedHandler |-> Fn("defaultMethodNotAllowed"),
     middlewareCheckpoints |->
         Obj([i \in 1..Len(CheckpointNames) |-> Prop(CheckpointNames[i], Null)]),
     alwaysAddedHeaders |-> Obj(<<>>),
     port |-> Num("3000"),
     environment |-> Str("development"),
     autostart |-> Bool(TRUE)]

\* a requiredTypes that expects autostart to be a string
requiredTypesStringAutostart ==
    [routesDirectory |-> "string",
     publicDirectory |-> "string",
     viewsDirectory |-> "string",
     viewEngine |-> "string",
     notFoundHandler |-> "function",
     errorHandler |-> "function",
     methodNotAllowedHandler |-> "function",
     middlewareCheckpoints |-> "object",
     alwaysAddedHeaders |-> "object",
     port |-> "number",
     environment |-> "string",
     autostart |-> "string"]

requiredTypes ==
    [routesDirectory |-> "string",
     publicDirectory |-> "string",
     viewsDirectory |-> "string",
     viewEngine |-> "string",
     notFoundHandler |-> "function",
     errorHandler |-> "function",
     methodNotAllowedHandler |-> "function",
     middlewareCheckpoints |-> "object",
     alwaysAddedHeaders |-> "object",
     port |-> "number",
     environment |-> "string",
     autostart |-> "boolean"]

\* a fill loop that replaces every falsy value, not only undefined
FillDefaultsFalsy(opts) ==
    [k \in OptionKeySet |-> IF ~Truthy(opts[k]) THEN defaultOptions[k] ELSE opts[k]]

\* a fill that merges a supplied checkpoints object into the default slots
FillDefaultsMerging(opts) ==
    [k \in OptionKeySet |->
        IF opts[k] = Undefined THEN defaultOptions[k]
        ELSE IF k = "middlewareCheckpoints" /\ opts[k].t = "object"
        THEN Obj(defaultOptions[k].props \o opts[k].props)
        ELSE opts[k]]

\* for (key in defaultOptions) if (options[key] === undefined) options[key] = default
FillDefaults(opts) ==
    [k \in OptionKeySet |-> IF opts[k] = Undefined THEN defaultOptions[k] ELSE opts[k]]

\* the option keys whose value fails typeof, as positions of the check's order
MistypedOptions(opts) ==
    {i \in 1..Len(OptionKeys) : TypeOf(opts[OptionKeys[i]]) # requiredTypes[OptionKeys[i]]}

Min(S) == CHOOSE x \in S : \A y \in S : x <= y

\* an existsSync that finds every directory
ExistsAlways(w, key) == TRUE

\* fs.existsSync on a directory option: the world says what is on disk
ExistsSync(w, key) == w.exists[key]

\* a switch with one more case
ViewEnginesAndMustache == {"ejs", "pug", "nunjucks", "handlebars", "mustache"}

\* the cases of switch (this.options.viewEngine)
ViewEngines == {"ejs", "pug", "nunjucks", "handlebars"}

\* the checkpoint loop of loadOptions: the first slot, in the object's key
\* order, that is neither null nor a function (0: none)
InvalidCheckpoint(mc) ==
    LET bad == {i \in 1..Len(mc.props) :
                    /\ mc.props[i].val # Null
                    /\ TypeOf(mc.props[i].val) # "function"}
    IN IF bad = {} THEN 0 ELSE Min(bad)

Entry(kind, name, fn, idx) == [kind |-> kind, name |-> name, fn |-> fn, idx |-> idx]

\* loadOptions as a whole: the options it leaves, what it registered on the
\* app, and the error it exited with (NoError: it returned)
loadOptions(raw, w) ==
    LET opts == FillDefaults(raw)
        mistyped == MistypedOptions(opts)
        static == IF ExistsSync(w, "publicDirectory")
                  THEN <<Entry("static", opts.publicDirectory.v, Undefined, 0)>>
                  ELSE <<>>
        warned == (IF ExistsSync(w, "publicDirectory") THEN {} ELSE {"public"})
                    \cup (IF /\ ~ExistsSync(w, "viewsDirectory")
                             /\ opts.viewEngine # Str("none")
                          THEN {"views"} ELSE {})
        useViews == /\ ExistsSync(w, "viewsDirectory")
                    /\ opts.viewEngine # Str("none")
        badSlot == InvalidCheckpoint(opts.middlewareCheckpoints)
        none == [views |-> "", engine |-> ""]
    IN  IF mistyped # {}
        THEN [options |-> opts, stack |-> <<>>, settings |-> none, warnings |-> {},
              error |-> KelpException("InvalidOption", OptionKeys[Min(mistyped)],
                                      requiredTypes[OptionKeys[Min(mistyped)]], 0)]
        ELSE IF ~ExistsSync(w, "routesDirectory")
        THEN [options |-> opts, stack |-> <<>>, settings |-> none, warnings |-> {},
              error |-> KelpException("MissingRoutesDirectory",
                                      opts.routesDirectory.v, "", 0)]
        ELSE IF ~useViews
        THEN [options |-> opts, stack |-> static, settings |-> none,
              warnings |-> warned, error |-> NoError]
        ELSE IF opts.viewEngine.v \notin ViewEngines
        THEN [options |-> opts, stack |-> static,
              settings |-> [views |-> opts.viewsDirectory.v, engine |-> ""],
              warnings |-> warned,
              error |-> KelpException("InvalidViewEngine", opts.viewEngine.v, "", 0)]
        ELSE [options |-> opts, stack |-> static,
              settings |-> [views |-> opts.viewsDirectory.v,
                            engine |-> opts.viewEngine.v],
              warnings |-> warned,
              error |-> IF badSlot = 0 THEN NoError
                        ELSE KelpException("InvalidCheckpoint",
                                 opts.middlewareCheckpoints.props[badSlot].k,
                                 "function", 0)]

(***************************************************************************)
(* The disk.  A listing is what readdirSync returns for a directory, in    *)
(* its order; a node is a file or a directory with its own listing.        *)
(***************************************************************************)
RouteKeys == <<"method", "path", "disabled", "developmentRoute", "routeMiddleware", "handler">>

RouteKeySet == {RouteKeys[i] : i \in 1..Len(RouteKeys)}

\* a route file that supplies nothing: export default {}
EmptyModule ==
    [method |-> Undefined, path |-> Undefined, disabled |-> Undefined,
     developmentRoute |-> Undefined, routeMiddleware |-> Undefined, handler |-> Undefined]

\* kind: "route" (a module whose default export is an object), "nodefault" (a
\* module without a default export), "broken" (import throws), "dir"
Node(name, kind, module, children) ==
    [name |-> name, kind |-> kind, module |-> module, children |-> children]

Cwd == <<"app">>

IsAbsolute(dir) == dir \in {"/app/routes", "/app/public", "/app/views"}

Segments(dir) ==
    CASE dir = "/app/routes" -> <<"app", "routes">>
      [] dir = "/app/public" -> <<"app", "public">>
      [] dir = "/app/views" -> <<"app", "views">>
      [] OTHER -> <<dir>>

\* where the operating system looks for a directory named as the option names it
Resolve(dir) == IF IsAbsolute(dir) THEN Segments(dir) ELSE Cwd \o Segments(dir)

\* path.join(__dirname, directory, "/", file): join concatenates and
\* normalises, it does not restart at an absolute segment
PathJoin(directory, file) == Cwd \o Segments(directory) \o <<file>>

\* snakeDirectory(directory): forEach over the listing; a file is pushed, a
\* directory calls this.snakeDirectory inside a function callback, where this
\* is undefined (module code is strict): a TypeError, whatever the directory holds
snakeDirectory(w, directory) ==
    LET listing == w.tree
        dirs == {i \in 1..Len(listing) : listing[i].kind = "dir"}
    IN  IF w.unreadable
        THEN [files |-> <<>>, error |-> Err("Error", "readdir", directory, "", 0)]
        ELSE IF dirs # {}
        THEN [files |-> <<>>, error |-> TypeError("this is undefined")]
        ELSE [files |-> [i \in 1..Len(listing) |-> PathJoin(directory, listing[i].name)],
              error |-> NoError]

\* the node of the world's tree a path names, NoNode when nothing is there
NoNode == Node("", "none", EmptyModule, <<>>)

RECURSIVE Lookup(_, _)
Lookup(listing, rel) ==
    IF rel = <<>> \/ ~\E i \in 1..Len(listing) : listing[i].name = Head(rel)
    THEN NoNode
    ELSE LET n == listing[CHOOSE i \in 1..Len(listing) : listing[i].name = Head(rel)]
         IN IF Len(rel) = 1 THEN n
            ELSE IF n.kind = "dir" THEN Lookup(n.children, Tail(rel))
            ELSE NoNode

IsPrefix(p, q) == Len(p) <= Len(q) /\ SubSeq(q, 1, Len(p)) = p

NodeAt(w, directory, path) ==
    LET root == Resolve(directory)
    IN IF IsPrefix(root, path) /\ Len(path) > Len(root)
       THEN Lookup(w.tree, SubSeq(path, Len(root) + 1, Len(path)))
       ELSE NoNode

\* what loadRoutes pushes for a module: its default export
Loaded(n) == [defined |-> n.kind = "route", fields |-> n.module]

\* an import loop that leaves out the files that do not load
importRoutesSkipping(w, directory, paths) ==
    LET nodes == [i \in 1..Len(paths) |-> NodeAt(w, directory, paths[i])]
    IN [routes |-> SelectSeq([i \in 1..Len(paths) |-> Loaded(nodes[i])],
                             LAMBDA r : r.defined),
        error |-> NoError]

\* for (file of files) routes.push((await import(file)).default): the first
\* import that throws rejects loadRoutes
importRoutes(w, directory, paths) ==
    LET nodes == [i \in 1..Len(paths) |-> NodeAt(w, directory, paths[i])]
        failing == {i \in 1..Len(paths) : nodes[i].kind \notin {"route", "nodefault"}}
    IN  IF failing # {}
        THEN [routes |-> <<>>,
              error |-> Err("Error",
                            IF nodes[Min(failing)].kind = "none"
                            THEN "ERR_MODULE_NOT_FOUND" ELSE "SyntaxError",
                            "", "", Min(failing) - 1)]
        ELSE [routes |-> [i \in 1..Len(paths) |-> Loaded(nodes[i])], error |-> NoError]

(***************************************************************************)
(* The loop body of loadRoutes.                                            *)
(***************************************************************************)
\* route defaults whose routeMiddleware answers instead of calling next
defaultRouteBlocking ==
    [method |-> Str("GET"),
     path |-> Str("/"),
     disabled |-> Bool(FALSE),
     developmentRoute |-> Bool(FALSE),
     routeMiddleware |-> Fn("blocking"),
     handler |-> Fn("routeNotConfigured")]

\* route defaults whose routeMiddleware leaves the route with next("route")
defaultRouteSkipping ==
    [method |-> Str("GET"),
     path |-> Str("/"),
     disabled |-> Bool(FALSE),
     developmentRoute |-> Bool(FALSE),
     routeMiddleware |-> Fn("userSkip"),
     handler |-> Fn("routeNotConfigured")]

defaultRoute ==
    [method |-> Str("GET"),
     path |-> Str("/"),
     disabled |-> Bool(FALSE),
     developmentRoute |-> Bool(FALSE),
     routeMiddleware |-> Fn("passThrough"),
     handler |-> Fn("routeNotConfigured")]

\* route types that expect path to be a number
routeTypesNumberPath ==
    [method |-> "string",
     path |-> "number",
     disabled |-> "boolean",
     developmentRoute |-> "boolean",
     routeMiddleware |-> "function",
     handler |-> "function"]

routeTypes ==
    [method |-> "string",
     path |-> "string",
     disabled |-> "boolean",
     developmentRoute |-> "boolean",
     routeMiddleware |-> "function",
     handler |-> "function"]

\* an enumeration that also admits FETCH
MethodsAndFetch ==
    {"GET", "HEAD", "POST", "PUT", "DELETE", "CONNECT", "OPTIONS", "TRACE", "PATCH", "FETCH"}

Methods == {"GET", "HEAD", "POST", "PUT", "DELETE", "CONNECT", "OPTIONS", "TRACE", "PATCH"}

\* a fill loop that puts the default routeMiddleware over the descriptor's own
FillRouteDefaultMiddleware(fields) ==
    [k \in RouteKeySet |->
        IF fields[k] = Undefined \/ k = "routeMiddleware" THEN defaultRoute[k] ELSE fields[k]]

FillRoute(fields) ==
    [k \in RouteKeySet |-> IF fields[k] = Undefined THEN defaultRoute[k] ELSE fields[k]]

MistypedFields(routeObject) ==
    {i \in 1..Len(RouteKeys) : TypeOf(routeObject[RouteKeys[i]]) # routeTypes[RouteKeys[i]]}

ValidMethod(routeObject) == ToUpperCase(routeObject.method.v) \in Methods

\* a gate that does not look at disabled
ShouldBindDisabled(routeObject, environment) ==
    \/ (environment = Str("development") /\ Truthy(routeObject.developmentRoute))
    \/ ~Truthy(routeObject.developmentRoute)

\* a gate that does not look at the environment
ShouldBindAnywhere(routeObject, environment) == ~Truthy(routeObject.disabled)

\* the gate in front of app.all
ShouldBind(routeObject, environment) ==
    /\ \/ (environment = Str("development") /\ Truthy(routeObject.developmentRoute))
       \/ ~Truthy(routeObject.developmentRoute)
    /\ ~Truthy(routeObject.disabled)

\* the error the validation of routes[idx] exits with (NoError: it passes)
RouteError(routeObject, idx) ==
    LET bad == MistypedFields(routeObject)
    IN IF bad # {}
       THEN KelpException("InvalidRoute", RouteKeys[Min(bad)], routeTypes[RouteKeys[Min(bad)]], idx)
       ELSE IF ~ValidMethod(routeObject)
       THEN KelpException("InvalidRouteMethod", "method", "", idx)
       ELSE NoError

(***************************************************************************)
(* kelpify's statements, in program order.                                 *)
(***************************************************************************)
Step(op, arg) == [op |-> op, arg |-> arg]

\* kelpify with the parsers registered before the routes are loaded
StepsParsersFirst ==
    <<Step("loadOptions", ""),
      Step("useHeaders", ""),
      Step("checkpoint", "beforeRouteLoad"),
      Step("useParsers", ""),
      Step("checkpoint", "afterRouteLoad"),
      Step("checkpoint", "beforeBuiltinMiddlewareRegister"),
      Step("loadRoutes", ""),
      Step("checkpoint", "afterBuiltinMiddlewareRegister"),
      Step("checkpoint", "before404Register"),
      Step("useNotFound", ""),
      Step("checkpoint", "after404Register"),
      Step("checkpoint", "beforeErrorRegister"),
      Step("useError", ""),
      Step("checkpoint", "afterErrorRegister"),
      Step("checkpoint", "beforeServe"),
      Step("finish", "")>>

\* kelpify that starts the server before it loads the routes
StepsListenFirst ==
    <<Step("loadOptions", ""),
      Step("useHeaders", ""),
      Step("checkpoint", "beforeRouteLoad"),
      Step("finish", ""),
      Step("loadRoutes", ""),
      Step("checkpoint", "afterRouteLoad"),
      Step("checkpoint", "beforeBuiltinMiddlewareRegister"),
      Step("useParsers", ""),
      Step("checkpoint", "afterBuiltinMiddlewareRegister"),
      Step("checkpoint", "before404Register"),
      Step("useNotFound", ""),
      Step("checkpoint", "after404Register"),
      Step("checkpoint", "beforeErrorRegister"),
      Step("useError", ""),
      Step("checkpoint", "afterErrorRegister"),
      Step("checkpoint", "beforeServe")>>

Steps ==
    <<Step("loadOptions", ""),
      Step("useHeaders", ""),
      Step("checkpoint", "beforeRouteLoad"),
      Step("loadRoutes", ""),
      Step("checkpoint", "afterRouteLoad"),
      Step("checkpoint", "beforeBuiltinMiddlewareRegister"),
      Step("useParsers", ""),
      Step("checkpoint", "afterBuiltinMiddlewareRegister"),
      Step("checkpoint", "before404Register"),
      Step("useNotFound", ""),
      Step("checkpoint", "after404Register"),
      Step("checkpoint", "beforeErrorRegister"),
      Step("useError", ""),
      Step("checkpoint", "afterErrorRegister"),
      Step("checkpoint", "beforeServe"),
      Step("finish", "")>>

At(op) == status = "running" /\ pc <= Len(Steps) /\ Steps[pc].op = op

\* registerMiddlewareAtCheckpoint(checkpoint): what it adds to the stack, or
\* the TypeError it throws (reading a property of null; app.use of a truthy
\* value that is no function)
\* a registerMiddlewareAtCheckpoint that tolerates a null middlewareCheckpoints
registerMiddlewareAtCheckpointNullSafe(opts, checkpoint) ==
    LET mc == opts.middlewareCheckpoints
        slot == Get(mc, checkpoint)
    IN  IF mc = Null \/ ~Truthy(slot)
        THEN [stack |-> <<>>, error |-> NoError]
        ELSE IF TypeOf(slot) = "function"
        THEN [stack |-> <<Entry("checkpoint", checkpoint, slot, 0)>>, error |-> NoError]
        ELSE [stack |-> <<>>, error |-> TypeError("app.use() requires a middleware function")]

registerMiddlewareAtCheckpoint(opts, checkpoint) ==
    LET mc == opts.middlewareCheckpoints
        slot == Get(mc, checkpoint)
    IN  IF mc = Null
        THEN [stack |-> <<>>, error |-> TypeError("middlewareCheckpoints is null")]
        ELSE IF ~Truthy(slot)
        THEN [stack |-> <<>>, error |-> NoError]
        ELSE IF TypeOf(slot) = "function"
        THEN [stack |-> <<Entry("checkpoint", checkpoint, slot, 0)>>, error |-> NoError]
        ELSE [stack |-> <<>>, error |-> TypeError("app.use() requires a middleware function")]

(***************************************************************************)
(* Serving.  A request walks the stack in registration order; a layer      *)
(* either passes it on (next), answers it, or starts the error path.       *)
(***************************************************************************)
Req(method, path, badBody) == [method |-> method, path |-> path, badBody |-> badBody]

\* a default notFoundHandler that calls next after it has answered
BehaviourNotFoundPassing(fn) ==
    CASE fn.v \in {"userPass", "passThrough", "defaultNotFound"} -> "next"
      [] fn.v = "userSkip" -> "route"
      [] OTHER -> "end"

\* what a function of the model does with a request: "next" (it calls
\* next()), "route" (a route middleware that calls next("route"): the
\* transport leaves this route and goes on matching) or "end" (it answers)
Behaviour(fn) ==
    CASE fn.v \in {"userPass", "passThrough"} -> "next"
      [] fn.v = "userSkip" -> "route"
      [] OTHER -> "end"

\* the status a function of the model answers with
Code(fn) ==
    CASE fn.v = "defaultNotFound" -> "404"
      [] fn.v = "defaultMethodNotAllowed" -> "405"
      [] fn.v = "defaultError" -> "500"
      [] OTHER -> "200"

\* the transport's path matching, opaque to kelp
PathMatches(pattern, path) == pattern = path

\* a routeHandler that compares the method as the descriptor spells it
routeHandlerExact(routeObject, req) ==
    IF req.method = routeObject.method.v
    THEN "handler"
    ELSE "methodNotAllowed"

\* routeHandler: which of the two handlers a request reaching it invokes
routeHandler(routeObject, req) ==
    IF req.method = ToUpperCase(routeObject.method.v)
    THEN "handler"
    ELSE "methodNotAllowed"

SetHeader(h, name, value) ==
    {x \in h : x.name # ToLowerCase(name)}
        \cup {[name |-> ToLowerCase(name), value |-> value]}

\* a loop that sets every configured header, the reserved one included
RECURSIVE AddHeadersOverriding(_, _, _)
AddHeadersOverriding(h, props, i) ==
    IF i > Len(props) THEN h
    ELSE AddHeadersOverriding(SetHeader(h, props[i].k, props[i].val.v), props, i + 1)

RECURSIVE AddHeaders(_, _, _)
AddHeaders(h, props, i) ==
    IF i > Len(props) THEN h
    ELSE AddHeaders(IF ToLowerCase(props[i].k) # ToLowerCase("X-Powered-By")
                    THEN SetHeader(h, props[i].k, props[i].val.v)
                    ELSE h,
                    props, i + 1)

\* the header-injection middleware
injectHeaders(h, opts) ==
    AddHeaders(SetHeader(h, "X-Powered-By", "@znci/kelp"),
               opts.alwaysAddedHeaders.props, 1)

\* the entries of alwaysAddedHeaders the middleware warns about
Refused(opts) ==
    {j \in 1..Len(opts.alwaysAddedHeaders.props) :
        ToLowerCase(opts.alwaysAddedHeaders.props[j].k) = ToLowerCase("X-Powered-By")}

Call(who, name, idx) == [who |-> who, name |-> name, idx |-> idx]

NoReq == Req("", "", FALSE)

Response(req, invoked, answered, code, headers) ==
    [req |-> req, invoked |-> invoked, answered |-> answered, code |-> code,
     headers |-> headers]

NotServed == Response(NoReq, <<>>, "", "", {})

\* the transport sets its own X-Powered-By before any middleware runs
FreshHeaders == {[name |-> "x-powered-by", value |-> "Express"]}

RECURSIVE Walk(_, _, _, _, _, _, _, _)
Walk(st, opts, rts, w, req, i, erred, r) ==
    IF i > Len(st)
    THEN Response(req, r.invoked, "finalhandler", IF erred THEN "500" ELSE "404", r.headers)
    ELSE LET e == st[i]
             skip == Walk(st, opts, rts, w, req, i + 1, erred, r)
             called(c) == Response(req, Append(r.invoked, c), "", "", r.headers)
         IN
         CASE e.kind = "static" ->
                IF ~erred /\ req.method \in {"GET", "HEAD"} /\ req.path \in w.publicFiles
                THEN Response(req, Append(r.invoked, Call("static", e.name, 0)),
                              "static", "200", r.headers)
                ELSE skip
           [] e.kind = "headers" ->
                IF erred THEN skip
                ELSE Walk(st, opts, rts, w, req, i + 1, erred,
                          Response(req, Append(r.invoked, Call("headers", "", 0)), "", "",
                                   injectHeaders(r.headers, opts)))
           [] e.kind \in {"checkpoint", "notFound"} ->
                IF erred THEN skip
                ELSE IF Behaviour(e.fn) = "next"
                THEN Walk(st, opts, rts, w, req, i + 1, erred, called(Call(e.kind, e.name, 0)))
                ELSE Response(req, Append(r.invoked, Call(e.kind, e.name, 0)),
                              e.kind, Code(e.fn), r.headers)
           [] e.kind = "route" ->
                IF erred \/ ~PathMatches(e.name, req.path) THEN skip
                ELSE IF Behaviour(e.fn) = "next"
                THEN LET which == routeHandler(rts[e.idx + 1].fields, req)
                         fn == IF which = "handler" THEN rts[e.idx + 1].fields.handler
                               ELSE opts.methodNotAllowedHandler
                     IN Response(req,
                                 r.invoked \o <<Call("routeMiddleware", e.name, e.idx),
                                                Call(which, e.name, e.idx)>>,
                                 which, Code(fn), r.headers)
                ELSE IF Behaviour(e.fn) = "route"
                THEN Walk(st, opts, rts, w, req, i + 1, erred,
                          called(Call("routeMiddleware", e.name, e.idx)))
                ELSE Response(req, Append(r.invoked, Call("routeMiddleware", e.name, e.idx)),
                              "routeMiddleware", Code(e.fn), r.headers)
           [] e.kind = "json" ->
                IF erred THEN skip
                ELSE Walk(st, opts, rts, w, req, i + 1, req.badBody, called(Call("json", "", 0)))
           [] e.kind \in {"urlencoded", "cookieParser"} ->
                IF erred THEN skip
                ELSE Walk(st, opts, rts, w, req, i + 1, erred, called(Call(e.kind, "", 0)))
           [] e.kind = "error" ->
                IF ~erred THEN skip
                ELSE Response(req, Append(r.invoked, Call("error", "", 0)),
                              "error", Code(e.fn), r.headers)
           [] OTHER -> skip

\* what kelp.warn is called about while the request answered by r is served
warn(opts, r) ==
    LET did(who) == \E j \in 1..Len(r.invoked) : r.invoked[j].who = who
    IN (IF did("headers") /\ Refused(opts) # {} THEN {"X-Powered-By"} ELSE {})
        \cup (IF did("methodNotAllowed") /\ opts.environment = Str("development")
              THEN {"405"} ELSE {})

Serve(st, opts, rts, w, req) ==
    Walk(st, opts, rts, w, req, 1, FALSE, Response(req, <<>>, "", "", FreshHeaders))

Requests ==
    {Req(m, p, FALSE) : m \in {"GET", "POST"}, p \in {"/", "/x", "/y"}}
        \cup {Req("POST", p, TRUE) : p \in {"/", "/x"}}

(***************************************************************************)
(* The worlds a run starts in: the caller's options and the disk.          *)
(***************************************************************************)
\* the values a caller supplies for an option key: well-typed and mistyped
OptionValues(k) ==
    CASE k = "routesDirectory" -> {Str("routes"), Num("5")}
      [] k = "publicDirectory" -> {Str("static"), Bool(TRUE)}
      [] k = "viewsDirectory" -> {Str("templates"), Num("5")}
      [] k = "viewEngine" -> {Str("none"), Str("ejs"), Str("pug"), Str("nunjucks"),
                              Str("handlebars"), Str("mustache"), Num("5")}
      [] k = "notFoundHandler" -> {Fn("userPass"), Str("x")}
      [] k = "errorHandler" -> {Fn("userError"), Null}
      [] k = "methodNotAllowedHandler" -> {Fn("userMethodNotAllowed"), Str("x")}
      [] k = "middlewareCheckpoints" -> {Obj(<<>>), Null, Str("x")}
      [] k = "alwaysAddedHeaders" ->
            {Obj(<<Prop("X-Frame-Options", Str("DENY")), Prop("x-powered-by", Str("evil"))>>),
             Null, Str("x")}
      [] k = "port" -> {Num("8080"), Str("8080")}
      [] k = "environment" -> {Str("production"), Str("development"), Bool(TRUE)}
      [] k = "autostart" -> {Bool(FALSE), Bool(TRUE), Str("false")}

NoOptions ==
    [routesDirectory |-> Undefined, publicDirectory |-> Undefined,
     viewsDirectory |-> Undefined, viewEngine |-> Undefined,
     notFoundHandler |-> Undefined, errorHandler |-> Undefined,
     methodNotAllowedHandler |-> Undefined, middlewareCheckpoints |-> Undefined,
     alwaysAddedHeaders |-> Undefined, port |-> Undefined, environment |-> Undefined,
     autostart |-> Undefined]

\* the options objects that supply at most n of the keys OptionKeys[i..]
RECURSIVE Supplying(_, _)
Supplying(i, n) ==
    IF i > Len(OptionKeys) THEN {NoOptions}
    ELSE Supplying(i + 1, n)
         \cup (IF n = 0 THEN {}
               ELSE {[o EXCEPT ![OptionKeys[i]] = v] :
                        o \in Supplying(i + 1, n - 1), v \in OptionValues(OptionKeys[i])})

With(o, k, v) == [o EXCEPT ![k] = v]

Disk(routesDir, publicDir, viewsDir) ==
    [routesDirectory |-> routesDir, publicDirectory |-> publicDir, viewsDirectory |-> viewsDir]

World(o, exists, tree, unreadable, publicFiles) ==
    [options |-> o, exists |-> exists, tree |-> tree, unreadable |-> unreadable,
     publicFiles |-> publicFiles]

\* option resolution: any options; a routes directory beside any of the other
\* two directories, or the other two without it; no route file
OptionWorlds ==
    {World(o, d, <<>>, FALSE, {}) :
        o \in Supplying(1, MaxSupplied),
        d \in {Disk(TRUE, p, v) : p, v \in BOOLEAN} \cup {Disk(FALSE, TRUE, TRUE)}}

\* what a checkpoint slot may hold: a middleware, null, something else
SlotValues == {Fn("userPass"), Null, Str("x")}

Reverse(seq) == [i \in 1..Len(seq) |-> seq[Len(seq) + 1 - i]]

\* checkpoint objects of up to MaxSlots slots, their keys in the order of
\* CheckpointNames and in the reverse order
CheckpointObjects ==
    UNION {LET names == SelectSeq(CheckpointNames, LAMBDA c : c \in S)
           IN UNION {{Obj([i \in 1..Len(names) |-> Prop(names[i], f[names[i]])]),
                      Obj(Reverse([i \in 1..Len(names) |-> Prop(names[i], f[names[i]])]))} :
                        f \in [S -> SlotValues]} :
              S \in {T \in SUBSET CheckpointSet : Cardinality(T) <= MaxSlots}}

\* checkpoints: no view engine, or ejs with and without its views directory
SlotWorlds ==
    {World(With(m.o, "middlewareCheckpoints", mc), Disk(TRUE, FALSE, m.v), <<>>, FALSE, {}) :
        m \in {[o |-> NoOptions, v |-> FALSE],
               [o |-> With(NoOptions, "viewEngine", Str("ejs")), v |-> FALSE],
               [o |-> With(NoOptions, "viewEngine", Str("ejs")), v |-> TRUE]},
        mc \in CheckpointObjects}

\* the values a route file supplies for a field: well-typed and mistyped
FieldValues(k) ==
    CASE k = "method" -> {Str("get"), Str("POST"), Str("Post"), Str("fetch"), Num("5")}
      [] k = "path" -> {Str("/x"), Num("5")}
      [] k = "disabled" -> {Bool(TRUE), Str("yes")}
      [] k = "developmentRoute" -> {Bool(TRUE), Str("yes")}
      [] k = "routeMiddleware" -> {Fn("userPass"), Fn("userAnswer"), Fn("userSkip"), Str("x")}
      [] k = "handler" -> {Fn("userHandler"), Null}

\* the default exports that supply exactly n of the fields RouteKeys[i..]
RECURSIVE Modules(_, _)
Modules(i, n) ==
    IF i > Len(RouteKeys) THEN (IF n = 0 THEN {EmptyModule} ELSE {})
    ELSE Modules(i + 1, n)
         \cup (IF n = 0 THEN {}
               ELSE {[m EXCEPT ![RouteKeys[i]] = v] :
                        m \in Modules(i + 1, n - 1), v \in FieldValues(RouteKeys[i])})

\* the files that supply n fields; a file that is no route module (no default
\* export, or an import that throws) counts as supplying one
Items(n) ==
    {Node("", "route", m, <<>>) : m \in Modules(1, n)}
        \cup (IF n # 1 THEN {}
              ELSE {Node("", "nodefault", EmptyModule, <<>>),
                    Node("", "broken", EmptyModule, <<>>)})

ItemsOf == [c \in 0..MaxListing |-> Items(c)]

\* the flat listings whose files and supplied fields number exactly n
RECURSIVE Exactly(_)
Exactly(n) ==
    IF n = 0 THEN {<<>>}
    ELSE UNION {{<<x>> \o rest : x \in ItemsOf[c], rest \in Exactly(n - 1 - c)} :
                    c \in 0..(n - 1)}

ExactlyOf == [n \in 0..MaxListing |-> Exactly(n)]

\* the flat listings whose files and supplied fields number at most n
Listings(n) == UNION {ExactlyOf[c] : c \in 0..n}

FileNames == <<"a.js", "b.js", "c.js", "d.js", "e.js", "f.js">>

Named(listing) == [i \in 1..Len(listing) |-> [listing[i] EXCEPT !.name = FileNames[i]]]

RelativeRoutes == With(NoOptions, "routesDirectory", Str("routes"))

\* route loading: the development defaults with any listing
RouteWorlds ==
    {World(RelativeRoutes, Disk(TRUE, FALSE, FALSE), Named(l), FALSE, {}) :
        l \in Listings(MaxListing)}

\* route loading with one more option (production, a checkpoint middleware
\* that answers or passes on, the caller's own handlers, a view engine without
\* a views directory) and a listing smaller by one
RouteOptionWorlds ==
    {World(o, Disk(TRUE, FALSE, FALSE), Named(l), FALSE, {}) :
        o \in {With(RelativeRoutes, "environment", Str("production")),
               With(RelativeRoutes, "middlewareCheckpoints",
                    Obj(<<Prop("beforeRouteLoad", Fn("userAnswer"))>>)),
               With(RelativeRoutes, "middlewareCheckpoints",
                    Obj(<<Prop("before404Register", Fn("userAnswer"))>>)),
               With(RelativeRoutes, "middlewareCheckpoints",
                    Obj(<<Prop("afterRouteLoad", Fn("userPass"))>>)),
               With(RelativeRoutes, "methodNotAllowedHandler", Fn("userMethodNotAllowed")),
               With(RelativeRoutes, "notFoundHandler", Fn("userPass")),
               With(RelativeRoutes, "viewEngine", Str("ejs"))},
        l \in Listings(MaxListing - 1)}

RECURSIVE TreeSize(_)
TreeSize(listing) ==
    IF listing = <<>> THEN 0
    ELSE 1 + TreeSize(Head(listing).children) + TreeSize(Tail(listing))

\* the routes trees of at most n entries, each a route file or a directory
RECURSIVE Trees(_)
Trees(n) ==
    IF n = 0 THEN {<<>>}
    ELSE {<<>>}
         \cup {<<Node("", "route", EmptyModule, <<>>)>> \o rest : rest \in Trees(n - 1)}
         \cup UNION {{<<Node("", "dir", EmptyModule, Named(sub))>> \o rest :
                        rest \in Trees(n - 1 - TreeSize(sub))} : sub \in Trees(n - 1)}

\* discovery: nested routes trees, and a routes directory that cannot be listed
TreeWorlds ==
    {World(RelativeRoutes, Disk(TRUE, FALSE, FALSE), Named(t), FALSE, {}) :
        t \in Trees(MaxNodes)}
    \cup {World(RelativeRoutes, Disk(TRUE, FALSE, FALSE), <<>>, TRUE, {})}

\* the defaults: no options at all, a routes directory with at most one file
DefaultWorlds ==
    {World(NoOptions, Disk(TRUE, FALSE, FALSE), Named(l), FALSE, {}) : l \in Listings(1)}

\* static files: a public directory that holds a file for the path /x
StaticWorlds ==
    {World(RelativeRoutes, Disk(TRUE, TRUE, FALSE), Named(l), FALSE, {"/x"}) :
        l \in Listings(2)}

InWorlds(w) ==
    \/ w \in OptionWorlds
    \/ w \in SlotWorlds
    \/ w \in RouteWorlds
    \/ w \in RouteOptionWorlds
    \/ w \in TreeWorlds
    \/ w \in DefaultWorlds
    \/ w \in StaticWorlds

(***************************************************************************)
(* The state machine.                                                      *)
(***************************************************************************)
Init ==
    /\ InWorlds(world)
    /\ options = world.options
    /\ stack = <<>>
    /\ settings = [views |-> "", engine |-> ""]
    /\ listenCalls = <<>>
    /\ status = "running"
    /\ pc = 1
    /\ phase = ""
    /\ error = NoError
    /\ files = <<>>
    /\ routes = <<>>
    /\ route = 0
    /\ log = <<>>
    /\ warnings = {}
    /\ served = NotServed
    /\ PORT = Undefined

\* process.exit(1) after kelp.error(e), or an exception leaving kelpify
Stop(how, e) == status' = how /\ error' = e /\ UNCHANGED <<pc, phase>>

Advance == pc' = pc + 1 /\ phase' = "" /\ UNCHANGED <<status, error>>

\* kelp.loadOptions()
LoadOptions ==
    /\ At("loadOptions")
    /\ LET r == loadOptions(options, world)
       IN /\ options' = r.options
          /\ stack' = stack \o r.stack
          /\ settings' = r.settings
          /\ warnings' = r.warnings
          /\ IF r.error # NoError
             THEN Stop("exited", r.error)
             ELSE Advance
    /\ UNCHANGED <<PORT, world, listenCalls, files, routes, route, log, served>>

\* kelp.app.use((req, res, next) => { ...headers...; next() })
UseHeaders ==
    /\ At("useHeaders")
    /\ stack' = Append(stack, Entry("headers", "", Fn("headerInjection"), 0))
    /\ Advance
    /\ UNCHANGED <<PORT, world, options, settings, listenCalls, files, routes, route, log,
                   warnings, served>>

\* kelp.registerMiddlewareAtCheckpoint(name)
RegisterCheckpoint ==
    /\ At("checkpoint")
    /\ LET r == registerMiddlewareAtCheckpoint(options, Steps[pc].arg)
       IN /\ stack' = stack \o r.stack
          /\ IF r.error # NoError
             THEN Stop("rejected", r.error)
             ELSE Advance
    /\ UNCHANGED <<PORT, world, options, settings, listenCalls, files, routes, route, log,
                   warnings, served>>

\* const files = await this.snakeDirectory(this.options.routesDirectory)
SnakeDirectory ==
    /\ At("loadRoutes") /\ phase = ""
    /\ LET r == snakeDirectory(world, options.routesDirectory.v)
       IN /\ files' = r.files
          /\ IF r.error # NoError
             THEN Stop("rejected", r.error)
             ELSE phase' = "import" /\ UNCHANGED <<status, error, pc>>
    /\ UNCHANGED <<PORT, world, options, stack, settings, listenCalls, routes, route, log,
                   warnings, served>>

\* for (const file of files) routes.push((await import(file)).default); with no
\* route loaded the loop over routes has no pass and loadRoutes returns
ImportRoutes ==
    /\ At("loadRoutes") /\ phase = "import"
    /\ LET r == importRoutes(world, options.routesDirectory.v, files)
       IN /\ routes' = r.routes
          /\ IF r.error # NoError
             THEN Stop("rejected", r.error)
             ELSE IF r.routes = <<>>
             THEN Advance
             ELSE phase' = "routes" /\ UNCHANGED <<status, error, pc>>
    /\ route' = 0
    /\ UNCHANGED <<PORT, world, options, stack, settings, listenCalls, files, log, warnings, served>>

\* kelp.info(message): printed in the development environment only
info(opts, message) ==
    IF opts.environment = Str("development") THEN <<message>> ELSE <<>>

\* one pass of for (const route in routes): defaults, type checks, the method
\* check, then app.all or the skip; after the last pass loadRoutes returns
\* a loadRoutes that validates every descriptor before it binds the first
LoadRouteValidatingFirst ==
    /\ At("loadRoutes") /\ phase = "routes" /\ route < Len(routes)
    /\ LET loaded == routes[route + 1]
           routeObject == FillRoute(loaded.fields)
           faulty == {k \in (route + 1)..Len(routes) :
                        RouteError(FillRoute(routes[k].fields), k - 1) # NoError}
           e == IF faulty = {} THEN NoError
                ELSE RouteError(FillRoute(routes[Min(faulty)].fields), Min(faulty) - 1)
           last == route + 1 = Len(routes)
       IN IF ~loaded.defined
          THEN /\ Stop("rejected", TypeError("routeObject is undefined"))
               /\ UNCHANGED <<routes, stack, log, route>>
          ELSE /\ routes' = [routes EXCEPT ![route + 1].fields = routeObject]
               /\ IF e # NoError
                  THEN /\ Stop("exited", e)
                       /\ UNCHANGED <<stack, log, route>>
                  ELSE /\ IF ShouldBind(routeObject, options.environment)
                          THEN /\ stack' = Append(stack,
                                        Entry("route", routeObject.path.v,
                                              routeObject.routeMiddleware, route))
                               /\ log' = log \o info(options, "Loaded")
                          ELSE /\ stack' = stack
                               /\ log' = log \o info(options, "Skipped")
                       /\ route' = route + 1
                       /\ IF last
                          THEN Advance
                          ELSE UNCHANGED <<status, error, pc, phase>>
    /\ UNCHANGED <<PORT, world, options, settings, listenCalls, files, warnings, served>>

LoadRoute ==
    /\ At("loadRoutes") /\ phase = "routes" /\ route < Len(routes)
    /\ LET loaded == routes[route + 1]
           routeObject == FillRoute(loaded.fields)
           e == RouteError(routeObject, route)
           last == route + 1 = Len(routes)
       IN IF ~loaded.defined
          THEN /\ Stop("rejected", TypeError("routeObject is undefined"))
               /\ UNCHANGED <<routes, stack, log, route>>
          ELSE /\ routes' = [routes EXCEPT ![route + 1].fields = routeObject]
               /\ IF e # NoError
                  THEN /\ Stop("exited", e)
                       /\ UNCHANGED <<stack, log, route>>
                  ELSE /\ IF ShouldBind(routeObject, options.environment)
                          THEN /\ stack' = Append(stack,
                                        Entry("route", routeObject.path.v,
                                              routeObject.routeMiddleware, route))
                               /\ log' = log \o info(options, "Loaded")
                          ELSE /\ stack' = stack
                               /\ log' = log \o info(options, "Skipped")
                       /\ route' = route + 1
                       /\ IF last
                          THEN Advance
                          ELSE UNCHANGED <<status, error, pc, phase>>
    /\ UNCHANGED <<PORT, world, options, settings, listenCalls, files, warnings, served>>

\* app.use(bodyParser.json()); app.use(bodyParser.urlencoded(...)); app.use(cookieParser())
UseParsers ==
    /\ At("useParsers")
    /\ stack' = stack \o <<Entry("json", "", Fn("json"), 0),
                           Entry("urlencoded", "", Fn("urlencoded"), 0),
                           Entry("cookieParser", "", Fn("cookieParser"), 0)>>
    /\ Advance
    /\ UNCHANGED <<PORT, world, options, settings, listenCalls, files, routes, route, log,
                   warnings, served>>

\* kelp.app.use(kelp.options.notFoundHandler)
UseNotFound ==
    /\ At("useNotFound")
    /\ stack' = Append(stack, Entry("notFound", "", options.notFoundHandler, 0))
    /\ Advance
    /\ UNCHANGED <<PORT, world, options, settings, listenCalls, files, routes, route, log,
                   warnings, served>>

\* kelp.app.use(kelp.options.errorHandler)
UseError ==
    /\ At("useError")
    /\ stack' = Append(stack, Entry("error", "", options.errorHandler, 0))
    /\ Advance
    /\ UNCHANGED <<PORT, world, options, settings, listenCalls, files, routes, route, log,
                   warnings, served>>

Listen(by, port) == [by |-> by, port |-> port]

\* start(): this.app.listen(this.options.port, ...)
start(opts) == <<Listen("kelpify", opts.port)>>

\* a last statement that starts the server whatever autostart says
FinishStarting ==
    /\ At("finish")
    /\ listenCalls' = listenCalls \o start(options)
    /\ status' = "resolved"
    /\ pc' = pc + 1
    /\ UNCHANGED <<PORT, world, options, stack, settings, phase, error, files, routes, route,
                   log, warnings, served>>

\* kelp.options.autostart ? kelp.start() : kelp.info(...); then kelpify returns
Finish ==
    /\ At("finish")
    /\ listenCalls' = listenCalls \o (IF Truthy(options.autostart) THEN start(options) ELSE <<>>)
    /\ status' = "resolved"
    /\ pc' = pc + 1
    /\ UNCHANGED <<PORT, world, options, stack, settings, phase, error, files, routes, route,
                   log, warnings, served>>

\* the caller of the README: kelpify(app, {autostart: false}).then(() => app.listen(3000))
CallerListen ==
    /\ status = "resolved"
    /\ ~Truthy(options.autostart)
    /\ listenCalls = <<>>
    /\ listenCalls' = <<Listen("caller", Num("3000"))>>
    /\ UNCHANGED <<PORT, world, options, stack, settings, status, pc, phase, error, files,
                   routes, route, log, warnings, served>>

\* the listening app serves a request; serving keeps no state, so the run
\* follows one request
Request ==
    /\ status = "resolved"
    /\ listenCalls # <<>>
    /\ served = NotServed
    /\ \E req \in Requests :
            LET r == Serve(stack, options, routes, world, req)
            IN /\ served' = r
               /\ warnings' = warnings \cup warn(options, r)
    /\ UNCHANGED <<PORT, world, options, stack, settings, listenCalls, status, pc, phase,
                   error, files, routes, route, log>>

Next ==
    \/ LoadOptions
    \/ UseHeaders
    \/ RegisterCheckpoint
    \/ SnakeDirectory
    \/ ImportRoutes
    \/ LoadRoute
    \/ UseParsers
    \/ UseNotFound
    \/ UseError
    \/ Finish
    \/ CallerListen
    \/ Request

Spec == Init /\ [][Next]_vars

(***************************************************************************)
(* src/kelp.js, the earlier API: kelp.settings(settings) keeps the port    *)
(* and registers the middleware OPTIONS names, kelp.listen() starts the    *)
(* app and reads the routes in the listen callback.  It shares the         *)
(* variables above: options is the module's options, stack the app's       *)
(* stack, pc the position in LegacySteps.                                  *)
(***************************************************************************)
\* an array of strings
List(items) == [t |-> "object", v |-> "", props |-> <<>>, items |-> items]

\* a settings object
Settings(port, opts) ==
    [t |-> "object", v |-> "", props |-> <<>>, PORT |-> port, OPTIONS |-> opts]

\* parseInt on the ports of the model (-1 stands for NaN: no comparison holds)
parseInt(x) ==
    CASE x.v = "3193" -> 3193
      [] x.v = "70000" -> 70000
      [] x.v = "0" -> 0
      [] OTHER -> -1

validatePort(port) ==
    LET P == parseInt(port)
    IN P >= 0 /\ P <= 65535 /\ P # 0

\* what app.use / app.all registered: a middleware, or the closure of a route
\* file over its routeData
Layer(kind, name, method, fn, file) ==
    [kind |-> kind, name |-> name, method |-> method, fn |-> fn, file |-> file]

Middleware(kind) == Layer(kind, "", "", Undefined, <<>>)

\* settings.OPTIONS.forEach((v) => { switch (v) ... }): what it registers
RECURSIVE useOptions(_, _)
useOptions(items, i) ==
    IF i > Len(items) THEN <<>>
    ELSE (CASE items[i] = "body-parser" -> <<Middleware("urlencoded"), Middleware("json")>>
            [] items[i] = "cors" -> <<Middleware("cors")>>
            [] items[i] = "public" -> <<Middleware("static")>>
            [] OTHER -> <<>>)
         \o useOptions(items, i + 1)

\* kelp.settings(s) with the module's PORT and options as they stand: what it
\* leaves in them, what it registers, and what throwErr printed
kelp_settings(s, port, opts) ==
    IF TypeOf(s) # "object"
    THEN [PORT |-> port, options |-> opts, stack |-> <<>>, engine |-> "",
          log |-> <<"INVALID_SETTINGS">>]
    ELSE IF Truthy(s.PORT) /\ ~validatePort(s.PORT)
    THEN [PORT |-> port, options |-> opts, stack |-> <<>>, engine |-> "",
          log |-> <<"INVALID_PORT">>]
    ELSE [PORT |-> IF Truthy(s.PORT) THEN s.PORT ELSE port,
          options |-> s,
          stack |-> IF Truthy(s.OPTIONS) THEN useOptions(s.OPTIONS.items, 1) ELSE <<>>,
          engine |-> IF Truthy(s.OPTIONS)
                        /\ \E i \in 1..Len(s.OPTIONS.items) : s.OPTIONS.items[i] = "ejs"
                     THEN "ejs" ELSE "",
          log |-> <<>>]

isValidMethod(method) ==
    /\ TypeOf(method) = "string"
    /\ method.v \in {"GET", "POST", "PUT", "DELETE", "PATCH", "HEAD", "OPTIONS"}

\* fs.readdirSync(path.join(__dirname, "routes", subdir)): subdir is "" or
\* one name, so the directory read is routes/ or routes/<subdir>
readdirSync(w, subdir) ==
    IF ~w.routes THEN [error |-> "ENOENT", listing |-> <<>>]
    ELSE IF subdir = "" THEN [error |-> "", listing |-> w.tree]
    ELSE LET n == Lookup(w.tree, <<subdir>>)
         IN CASE n.kind = "none" -> [error |-> "ENOENT", listing |-> <<>>]
              [] n.kind = "dir" -> [error |-> "", listing |-> n.children]
              [] OTHER -> [error |-> "ENOTDIR", listing |-> <<>>]

\* the else branch of readRoutes' loop body: require the file and register it
requireRoute(subdir, file) ==
    LET routeData == file.module
        routePath == (IF subdir = "" THEN <<>> ELSE <<subdir>>) \o <<file.name>>
    IN IF ~Truthy(routeData.method) \/ ~isValidMethod(routeData.method)
       THEN [stack |-> <<>>, log |-> <<"INVALID_ROUTE">>, error |-> NoError]
       ELSE [stack |-> <<Layer("route", routeData.path.v, routeData.method.v,
                                routeData.handler, routePath)>>,
             log |-> <<"Using method">>,
             error |-> NoError]

\* kelp.readRoutes(subdir): the loop ends at the first exception.  A directory
\* is read as kelp.readRoutes(path.join(file)): by its own name, under
\* routes/.  active holds the subdirs whose call has not returned: a call for
\* one of them repeats it without end, until the call stack overflows (the
\* registrations that each round repeats are kept once)
RECURSIVE readRoutes(_, _, _)
RECURSIVE forEachFile(_, _, _, _, _)
readRoutes(w, subdir, active) ==
    IF subdir \in active
    THEN [stack |-> <<>>, log |-> <<>>,
          error |-> Err("RangeError", "Maximum call stack size exceeded", subdir, "", 0)]
    ELSE LET d == readdirSync(w, subdir)
         IN IF d.error # ""
            THEN [stack |-> <<>>, log |-> <<>>, error |-> Err("Error", d.error, subdir, "", 0)]
            ELSE forEachFile(w, subdir, d.listing, 1, active \cup {subdir})

forEachFile(w, subdir, listing, i, active) ==
    IF i > Len(listing)
    THEN [stack |-> <<>>, log |-> <<>>, error |-> NoError]
    ELSE LET file == listing[i]
             this == IF file.kind = "dir"
                     THEN readRoutes(w, file.name, active)
                     ELSE requireRoute(subdir, file)
             rest == forEachFile(w, subdir, listing, i + 1, active)
         IN IF this.error # NoError THEN this
            ELSE [stack |-> this.stack \o rest.stack,
                  log |-> this.log \o rest.log,
                  error |-> rest.error]

\* the callback of app.listen: it reads OPTIONS of the module's options
listenCallback(opts, w) ==
    IF opts = Undefined
    THEN [stack |-> <<>>, log |-> <<"Listening">>, error |-> TypeError("options is undefined")]
    ELSE IF ~Truthy(opts.OPTIONS)
    THEN [stack |-> <<>>, log |-> <<"Listening">>,
          error |-> TypeError("options.OPTIONS is undefined")]
    ELSE IF \E i \in 1..Len(opts.OPTIONS.items) : opts.OPTIONS.items[i] = "routes"
    THEN LET r == readRoutes(w, "", {})
         IN [stack |-> r.stack, log |-> <<"Listening">> \o r.log, error |-> r.error]
    ELSE [stack |-> <<>>, log |-> <<"Listening">>, error |-> NoError]

\* the app built by kelp.js answers a request
RECURSIVE LegacyWalk(_, _, _, _, _)
LegacyWalk(st, w, req, i, r) ==
    IF i > Len(st)
    THEN Response(req, r.invoked, "finalhandler", "404", r.headers)
    ELSE LET e == st[i]
             skip == LegacyWalk(st, w, req, i + 1, r)
         IN
         CASE e.kind = "static" ->
                IF req.method \in {"GET", "HEAD"} /\ req.path \in w.publicFiles
                THEN Response(req, Append(r.invoked, Call("static", "", 0)),
                              "static", "200", r.headers)
                ELSE skip
           [] e.kind = "route" ->
                IF ~PathMatches(e.name, req.path) THEN skip
                ELSE IF req.method = e.method
                THEN Response(req, Append(r.invoked, Call("handler", e.name, 0)),
                              "handler", Code(e.fn), r.headers)
                ELSE Response(req, Append(r.invoked, Call("methodNotAllowed", e.name, 0)),
                              "methodNotAllowed", "405", r.headers)
           [] OTHER ->
                LegacyWalk(st, w, req, i + 1,
                           Response(req, Append(r.invoked, Call(e.kind, "", 0)), "", "",
                                    r.headers))

LegacyServe(st, w, req) ==
    LegacyWalk(st, w, req, 1, Response(req, <<>>, "", "", FreshHeaders))

LegacyRequests == {Req(m, p, FALSE) : m \in {"GET", "POST"}, p \in {"/", "/x"}}

\* the worlds of kelp.js: the settings object, whether routes/ exists, its
\* tree, and the files of public/
LegacyWorld(s, routesExists, tree, publicFiles) ==
    [settings |-> s, routes |-> routesExists, tree |-> tree, publicFiles |-> publicFiles]

Ports == {Num("3193"), Str("3193"), Num("70000"), Num("0"), Undefined}

OptionNames == {"body-parser", "cors", "ejs", "public", "routes", "helmet"}

OptionLists == {Undefined} \cup {List(l) : l \in UNION {[1..n -> OptionNames] : n \in 0..MaxSupplied}}

\* the route files of the model: GET /x, a method in lower case, no method
LegacyModules ==
    {[EmptyModule EXCEPT !.method = Str("GET"), !.path = Str("/x"),
                         !.handler = Fn("userHandler")],
     [EmptyModule EXCEPT !.method = Str("get"), !.path = Str("/x"),
                         !.handler = Fn("userHandler")],
     [EmptyModule EXCEPT !.path = Str("/x"), !.handler = Fn("userHandler")]}

\* the routes trees of at most n entries, each a route file or a directory
RECURSIVE LegacyTrees(_)
LegacyTrees(n) ==
    IF n = 0 THEN {<<>>}
    ELSE {<<>>}
         \cup {<<Node("", "route", m, <<>>)>> \o rest :
                    m \in LegacyModules, rest \in LegacyTrees(n - 1)}
         \cup UNION {{<<Node("", "dir", EmptyModule, Named(sub))>> \o rest :
                        rest \in LegacyTrees(n - 1 - TreeSize(sub))} :
                            sub \in LegacyTrees(n - 1)}

\* any settings, no route file
SettingsWorlds ==
    {LegacyWorld(Settings(p, o), TRUE, <<>>, {"/"}) : p \in Ports, o \in OptionLists}
        \cup {LegacyWorld(Str("x"), TRUE, <<>>, {})}

\* the routes option with any routes tree, or without a routes directory
TreeSettings == Settings(Num("3193"), List(<<"body-parser", "routes">>))

LegacyTreeWorlds ==
    {LegacyWorld(TreeSettings, TRUE, Named(t), {}) : t \in LegacyTrees(MaxNodes)}
        \cup {LegacyWorld(TreeSettings, FALSE, <<>>, {})}

InLegacyWorlds(w) ==
    \/ w \in SettingsWorlds
    \/ w \in LegacyTreeWorlds

\* the calls of the caller's script and the events that follow them
LegacySteps == <<"settings", "listen", "listening", "request">>

LegacyAt(op) == status = "running" /\ pc \in 1..Len(LegacySteps) /\ LegacySteps[pc] = op

InitLegacy ==
    /\ InLegacyWorlds(world)
    /\ options = Undefined
    /\ stack = <<>>
    /\ settings = [views |-> "", engine |-> ""]
    /\ listenCalls = <<>>
    /\ status = "running"
    /\ pc = 1
    /\ phase = ""
    /\ error = NoError
    /\ files = <<>>
    /\ routes = <<>>
    /\ route = 0
    /\ log = <<>>
    /\ warnings = {}
    /\ served = NotServed
    /\ PORT = Undefined

\* kelp.settings(settings)
CallSettings ==
    /\ LegacyAt("settings")
    /\ LET r == kelp_settings(world.settings, PORT, options)
       IN /\ PORT' = r.PORT
          /\ options' = r.options
          /\ stack' = stack \o r.stack
          /\ settings' = [settings EXCEPT !.engine = r.engine]
          /\ log' = log \o r.log
    /\ pc' = pc + 1
    /\ UNCHANGED <<world, listenCalls, status, phase, error, files, routes, route,
                   warnings, served>>

\* kelp.listen(): app.listen(PORT, callback)
kelp_listen ==
    /\ LegacyAt("listen")
    /\ listenCalls' = Append(listenCalls, Listen("kelp", PORT))
    /\ pc' = pc + 1
    /\ UNCHANGED <<world, options, stack, settings, status, phase, error, files, routes,
                   route, log, warnings, served, PORT>>

\* the listen callback runs once the server listens, before any request is
\* taken.  It is an async function: an exception in it is an unhandled
\* rejection, which ends the process or is only reported, by the Node version
Listening ==
    /\ LegacyAt("listening")
    /\ LET r == listenCallback(options, world)
       IN /\ stack' = stack \o r.stack
          /\ log' = log \o r.log
          /\ error' = r.error
          /\ IF r.error = NoError
             THEN status' = "running"
             ELSE status' \in {"running", "crashed"}
    /\ pc' = pc + 1
    /\ UNCHANGED <<world, options, settings, listenCalls, phase, files, routes, route,
                   warnings, served, PORT>>

\* the listening app serves a request
LegacyRequest ==
    /\ LegacyAt("request")
    /\ listenCalls # <<>>
    /\ served = NotServed
    /\ \E req \in LegacyRequests : served' = LegacyServe(stack, world, req)
    /\ UNCHANGED <<world, options, stack, settings, listenCalls, status, pc, phase,
                   error, files, routes, route, log, warnings, PORT>>

NextLegacy ==
    \/ CallSettings
    \/ kelp_listen
    \/ Listening
    \/ LegacyRequest

\* the caller's script runs to its end and Node's event loop runs every
\* callback that is due
SpecLegacy == InitLegacy /\ [][NextLegacy]_vars /\ WF_vars(NextLegacy)

(***************************************************************************)
(* Properties.  What the documentation promises is written here on its own *)
(* terms: the documented types and defaults, and what is read off the app  *)
(* (its stack, its listen calls, the answer to a request).                 *)
(***************************************************************************)
\* the expected type of every option, as documented
DocumentedTypes ==
    [routesDirectory |-> "string", publicDirectory |-> "string",
     viewsDirectory |-> "string", viewEngine |-> "string",
     notFoundHandler |-> "function", errorHandler |-> "function",
     methodNotAllowedHandler |-> "function", middlewareCheckpoints |-> "object",
     alwaysAddedHeaders |-> "object", port |-> "number", environment |-> "string",
     autostart |-> "boolean"]

\* the option keys the caller supplied with a value of another type, as
\* positions of the order the keys are checked in
SuppliedMistyped ==
    {i \in 1..Len(OptionKeys) :
        /\ world.options[OptionKeys[i]] # Undefined
        /\ TypeOf(world.options[OptionKeys[i]]) # DocumentedTypes[OptionKeys[i]]}

\* option resolution is over
OptionsLoaded == pc > 1 \/ status # "running"

NoSettings == [views |-> "", engine |-> ""]

Has(kind) == \E j \in 1..Len(stack) : stack[j].kind = kind

\* routes[i] was bound on the app
Bound(i) == \E j \in 1..Len(stack) : stack[j].kind = "route" /\ stack[j].idx = i - 1

\* the descriptor the i-th route file exports
Descriptor(i) == world.tree[i].module

\* the path a descriptor is bound at
PathOf(i) == IF Descriptor(i).path = Undefined THEN "/" ELSE Descriptor(i).path.v

\* the calls a served request made into routes[i]
CallsInto(i, whos) ==
    {j \in 1..Len(served.invoked) :
        served.invoked[j].who \in whos /\ served.invoked[j].idx = i - 1}

Dispatch == {"handler", "methodNotAllowed"}

Invoked(who) == \E j \in 1..Len(served.invoked) : served.invoked[j].who = who

\* what a slot of the resolved middlewareCheckpoints registers: the function
\* it holds under that name, wherever the key stands in the object
SlotEntry(c) ==
    LET props == options.middlewareCheckpoints.props
        at == {j \in 1..Len(props) : props[j].k = c}
    IN IF at = {} THEN <<>>
       ELSE LET v == props[CHOOSE j \in at : TRUE].val
            IN IF TypeOf(v) = "function" THEN <<Entry("checkpoint", c, v, 0)>> ELSE <<>>

\* C1: a run that ends without a fatal error has registered, after what option
\* resolution itself put on the app, the header middleware, beforeRouteLoad,
\* the route bindings, afterRouteLoad, beforeBuiltinMiddlewareRegister, the
\* three parsers, afterBuiltinMiddlewareRegister, before404Register, the
\* not-found handler, after404Register, beforeErrorRegister, the error handler,
\* afterErrorRegister and beforeServe, in this order; a slot holding a function
\* is there once, an empty slot not at all, whatever the key order of the
\* checkpoints object; and listen is called only when all of it is registered
C1_RegistrationOrder ==
    /\ status = "resolved" =>
        LET early == SelectSeq(stack, LAMBDA e : e.kind = "static")
            bindings == SelectSeq(stack, LAMBDA e : e.kind = "route")
        IN /\ \A j \in 1..Len(bindings) - 1 : bindings[j].idx < bindings[j + 1].idx
           /\ stack = early
                \o <<Entry("headers", "", Fn("headerInjection"), 0)>>
                \o SlotEntry("beforeRouteLoad")
                \o bindings
                \o SlotEntry("afterRouteLoad")
                \o SlotEntry("beforeBuiltinMiddlewareRegister")
                \o <<Entry("json", "", Fn("json"), 0),
                     Entry("urlencoded", "", Fn("urlencoded"), 0),
                     Entry("cookieParser", "", Fn("cookieParser"), 0)>>
                \o SlotEntry("afterBuiltinMiddlewareRegister")
                \o SlotEntry("before404Register")
                \o <<Entry("notFound", "", options.notFoundHandler, 0)>>
                \o SlotEntry("after404Register")
                \o SlotEntry("beforeErrorRegister")
                \o <<Entry("error", "", options.errorHandler, 0)>>
                \o SlotEntry("afterErrorRegister")
                \o SlotEntry("beforeServe")
    /\ listenCalls # <<>> => status = "resolved"

\* a listening app whose checkpoints object names beforeServe before
\* beforeRouteLoad, both holding a middleware
C1_Witness ==
    /\ status = "resolved"
    /\ listenCalls # <<>>
    /\ world.options.middlewareCheckpoints # Undefined
    /\ Len(options.middlewareCheckpoints.props) = 2
    /\ options.middlewareCheckpoints.props[1] = Prop("beforeServe", Fn("userPass"))
    /\ options.middlewareCheckpoints.props[2] = Prop("beforeRouteLoad", Fn("userPass"))

\* C2: listen is called only when the options are resolved, every discovered
\* descriptor is validated and bound or skipped, and the not-found and the
\* error handler are registered; a run that ends in a fatal error never calls
\* listen
C2_ListenOnlyWhenReady ==
    /\ listenCalls # <<>> =>
        /\ status = "resolved"
        /\ error = NoError
        /\ \A k \in OptionKeySet : TypeOf(options[k]) = DocumentedTypes[k]
        /\ Len(files) = Len(world.tree)
        /\ Len(routes) = Len(files)
        /\ route = Len(routes)
        /\ \A i \in 1..Len(routes) :
            /\ routes[i].defined
            /\ \A k \in RouteKeySet : TypeOf(routes[i].fields[k]) = routeTypes[k]
            /\ ToUpperCase(routes[i].fields.method.v) \in Methods
            /\ Bound(i) <=> (/\ routes[i].fields.disabled = Bool(FALSE)
                             /\ \/ routes[i].fields.developmentRoute = Bool(FALSE)
                                \/ options.environment = Str("development"))
        /\ Has("notFound")
        /\ Has("error")
    /\ status \in {"exited", "rejected"} => listenCalls = <<>>

\* a listening app with one route bound and one skipped
C2_Witness ==
    /\ listenCalls # <<>>
    /\ Len(routes) = 2
    /\ Bound(1)
    /\ ~Bound(2)

\* C3: with autostart true kelpify calls listen exactly once, on the resolved
\* port, as its last step; with autostart false it never calls listen, and
\* it resolves only after the routes, the checkpoints, the not-found handler
\* and the error handler are registered, so that a caller listening after it
\* starts a fully configured app
C3_Autostart ==
    LET port == IF world.options.port = Undefined THEN Num("3000") ELSE world.options.port
        byKelpify == SelectSeq(listenCalls, LAMBDA l : l.by = "kelpify")
    IN /\ status # "resolved" => listenCalls = <<>>
       /\ status = "resolved" =>
            /\ options.autostart = Bool(TRUE) => listenCalls = <<Listen("kelpify", port)>>
            /\ options.autostart = Bool(FALSE) => byKelpify = <<>>
            /\ options.autostart \in {Bool(TRUE), Bool(FALSE)}
            /\ pc = Len(Steps) + 1
            /\ route = Len(routes)
            /\ Len(routes) = Len(world.tree)
            /\ Len(SelectSeq(stack, LAMBDA e : e.kind = "route"))
                    = Cardinality({i \in 1..Len(routes) : Bound(i)})
            /\ \A c \in CheckpointSet :
                \A j \in 1..Len(SlotEntry(c)) :
                    \E n \in 1..Len(stack) : stack[n] = SlotEntry(c)[j]
            /\ Has("notFound")
            /\ Has("error")

\* autostart false: kelpify resolved without listening and the caller listens
C3_Witness ==
    /\ status = "resolved"
    /\ options.autostart = Bool(FALSE)
    /\ listenCalls = <<Listen("caller", Num("3000"))>>

\* C4: an option key the caller leaves out resolves to its documented default
\* (viewEngine "none", port 3000, environment "development", autostart on,
\* every checkpoint slot empty, alwaysAddedHeaders empty); and with no options
\* at all and an existing routes directory kelpify ends up listening on port
\* 3000
C4_DefaultsAndListen ==
    /\ OptionsLoaded =>
        /\ world.options.viewEngine = Undefined => options.viewEngine = Str("none")
        /\ world.options.port = Undefined => options.port = Num("3000")
        /\ world.options.environment = Undefined =>
                options.environment = Str("development")
        /\ world.options.autostart = Undefined => options.autostart = Bool(TRUE)
        /\ world.options.middlewareCheckpoints = Undefined =>
            /\ KeysOf(options.middlewareCheckpoints) = CheckpointNames
            /\ \A c \in CheckpointSet : Get(options.middlewareCheckpoints, c) = Null
        /\ world.options.alwaysAddedHeaders = Undefined =>
                options.alwaysAddedHeaders = Obj(<<>>)
    /\ (/\ world.options = NoOptions
        /\ world.exists.routesDirectory
        /\ status # "running")
            => listenCalls = <<Listen("kelpify", Num("3000"))>>

\* C5: when the caller supplies values of the wrong type, option resolution
\* ends the process with an invalid-option error that names the first such
\* key, in the order the keys are checked, and its expected type, before
\* anything is registered on the app
C5_FirstMistypedOption ==
    (OptionsLoaded /\ SuppliedMistyped # {}) =>
        LET key == OptionKeys[Min(SuppliedMistyped)]
        IN /\ status = "exited"
           /\ error = KelpException("InvalidOption", key, DocumentedTypes[key], 0)
           /\ stack = <<>>
           /\ settings = NoSettings
           /\ routes = <<>>
           /\ listenCalls = <<>>

\* two options of the wrong type: the process ended naming the first
C5_Witness ==
    /\ status = "exited"
    /\ Cardinality(SuppliedMistyped) = 2
    /\ error.kind = "InvalidOption"

\* C5 as stated: the error names every key supplied with a value of the wrong
\* type
C5_EveryMistypedOption ==
    \A i \in SuppliedMistyped :
        OptionsLoaded =>
            /\ status = "exited"
            /\ error = KelpException("InvalidOption", OptionKeys[i],
                                     DocumentedTypes[OptionKeys[i]], 0)
            /\ stack = <<>>
            /\ settings = NoSettings
            /\ routes = <<>>
            /\ listenCalls = <<>>

\* C6: when the resolved routes directory does not exist, option resolution
\* ends the process with a missing-routes-directory error: no route is
\* discovered or bound, nothing is registered on the app, listen is never
\* called
C6_MissingRoutesDirectory ==
    (/\ OptionsLoaded
     /\ SuppliedMistyped = {}
     /\ ~world.exists.routesDirectory) =>
        /\ status = "exited"
        /\ error.name = "KelpException"
        /\ error.kind = "MissingRoutesDirectory"
        /\ error.key = (IF world.options.routesDirectory = Undefined
                        THEN "/app/routes" ELSE world.options.routesDirectory.v)
        /\ files = <<>>
        /\ routes = <<>>
        /\ stack = <<>>
        /\ settings = NoSettings
        /\ listenCalls = <<>>

\* no routes directory, beside a public and a views directory that exist
C6_Witness ==
    /\ status = "exited"
    /\ error.kind = "MissingRoutesDirectory"
    /\ world.exists.publicDirectory
    /\ world.exists.viewsDirectory

\* a request to the path of routes[i] that no bound route matches
Unmatched(i) ==
    /\ served # NotServed
    /\ served.req.path = PathOf(i)
    /\ \A j \in 1..Len(stack) :
            stack[j].kind = "route" => ~PathMatches(stack[j].name, served.req.path)

\* C7: a descriptor with disabled true is never bound, whatever the
\* environment and developmentRoute: no request invokes its handler or its
\* routeMiddleware, and a request to its path that no bound route matches
\* reaches the not-found handler, unless static serving or a checkpoint
\* middleware answers it first or a parser rejects its body
C7_DisabledNeverBound ==
    \A i \in 1..Len(routes) :
        Descriptor(i).disabled = Bool(TRUE) =>
            /\ ~Bound(i)
            /\ CallsInto(i, Dispatch \cup {"routeMiddleware"}) = {}
            /\ Unmatched(i) =>
                \/ Invoked("notFound")
                \/ served.answered = "static"
                \/ served.answered = "checkpoint"
                \/ served.req.badBody /\ served.answered = "error"

\* production, a disabled development route at /x: GET /x got the not-found
\* handler
C7_Witness ==
    /\ options.environment = Str("production")
    /\ Len(routes) = 1
    /\ Descriptor(1).disabled = Bool(TRUE)
    /\ Descriptor(1).developmentRoute = Bool(TRUE)
    /\ Unmatched(1)
    /\ Invoked("notFound")
    /\ served.answered = "notFound"

\* C7 as stated: every request to the path of a disabled descriptor that no
\* bound route matches reaches the not-found handler
C7_AlwaysNotFound ==
    \A i \in 1..Len(routes) :
        Descriptor(i).disabled = Bool(TRUE) =>
            /\ ~Bound(i)
            /\ CallsInto(i, Dispatch \cup {"routeMiddleware"}) = {}
            /\ Unmatched(i) => Invoked("notFound")

\* C8: a descriptor that is not disabled and has developmentRoute true is
\* bound in the development environment and not bound in production; with
\* developmentRoute false it is bound in both; no request invokes anything of
\* a descriptor that is not bound
C8_DevelopmentRoute ==
    \A i \in 1..route :
        LET d == routes[i].fields
        IN /\ (/\ d.disabled = Bool(FALSE)
               /\ d.developmentRoute = Bool(TRUE)
               /\ options.environment = Str("development")) => Bound(i)
           /\ (/\ d.disabled = Bool(FALSE)
               /\ d.developmentRoute = Bool(TRUE)
               /\ options.environment = Str("production")) => ~Bound(i)
           /\ (/\ d.disabled = Bool(FALSE)
               /\ d.developmentRoute = Bool(FALSE)
               /\ options.environment \in {Str("development"), Str("production")})
                    => Bound(i)
           /\ ~Bound(i) => CallsInto(i, Dispatch \cup {"routeMiddleware"}) = {}

\* production: the development route a.js is skipped, b.js is bound and a
\* request invoked its handler
C8_Witness ==
    /\ options.environment = Str("production")
    /\ Len(routes) = 2
    /\ Descriptor(1).developmentRoute = Bool(TRUE)
    /\ ~Bound(1)
    /\ Bound(2)
    /\ CallsInto(2, {"handler"}) # {}

\* C9: a request that reaches the dispatch of a bound descriptor invokes
\* exactly one of two handlers: the declared handler when its method is the
\* descriptor's method in upper case, the configured methodNotAllowedHandler
\* and not the declared handler for every other method
C9_MethodDispatch ==
    \A i \in 1..Len(routes) :
        LET d == routes[i].fields
            same == served.req.method = ToUpperCase(d.method.v)
        IN /\ CallsInto(i, Dispatch) # {} => Bound(i)
           /\ Cardinality(CallsInto(i, Dispatch)) <= 1
           /\ (CallsInto(i, {"routeMiddleware"}) # {} /\ Behaviour(d.routeMiddleware) = "next")
                => Cardinality(CallsInto(i, Dispatch)) = 1
           /\ CallsInto(i, {"handler"}) # {} =>
                /\ same
                /\ served.answered = "handler"
                /\ served.code = Code(d.handler)
           /\ CallsInto(i, {"methodNotAllowed"}) # {} =>
                /\ ~same
                /\ served.answered = "methodNotAllowed"
                /\ served.code = Code(options.methodNotAllowedHandler)

\* a descriptor that spells its method "get": a GET request invoked its handler
C9_Witness ==
    /\ Len(routes) = 1
    /\ Descriptor(1).method = Str("get")
    /\ served.req.method = "GET"
    /\ CallsInto(1, {"handler"}) # {}

\* a request to the path of routes[i] that the app hands to its binding: the
\* first bound at that path, nothing registered before the routes answered
HandedTo(i) ==
    /\ served # NotServed
    /\ Bound(i)
    /\ PathMatches(routes[i].fields.path.v, served.req.path)
    /\ \A j \in 1..(i - 1) :
            Bound(j) => ~PathMatches(routes[j].fields.path.v, served.req.path)
    /\ served.answered # "static"
    /\ ~(served.answered = "checkpoint"
         /\ served.invoked[Len(served.invoked)].name = "beforeRouteLoad")

\* C10: a descriptor that omits routeMiddleware gets a pass-through that
\* calls next: every request to its bound path reaches the method dispatch
\* (the declared handler or the method-not-allowed handler) and the
\* middleware never leaves it unanswered
C10_DefaultMiddleware ==
    \A i \in 1..route :
        Descriptor(i).routeMiddleware = Undefined =>
            /\ TypeOf(routes[i].fields.routeMiddleware) = "function"
            /\ Behaviour(routes[i].fields.routeMiddleware) = "next"
            /\ HandedTo(i) => CallsInto(i, {"routeMiddleware"}) # {}
            /\ CallsInto(i, {"routeMiddleware"}) # {} =>
                /\ Cardinality(CallsInto(i, Dispatch)) = 1
                /\ served.answered \in Dispatch

\* a descriptor with a handler and no routeMiddleware: a request went through
\* the default middleware to the handler
C10_Witness ==
    /\ Len(routes) = 1
    /\ Descriptor(1).routeMiddleware = Undefined
    /\ Descriptor(1).handler = Fn("userHandler")
    /\ CallsInto(1, {"routeMiddleware"}) # {}
    /\ CallsInto(1, {"handler"}) # {}

\* the files, directories left out, of a routes tree
RECURSIVE FileCount(_)
FileCount(listing) ==
    IF listing = <<>> THEN 0
    ELSE (IF Head(listing).kind = "dir" THEN FileCount(Head(listing).children) ELSE 1)
            + FileCount(Tail(listing))

\* the statement of kelpify that loads the routes
LoadRoutesAt == CHOOSE n \in 1..Len(Steps) : Steps[n].op = "loadRoutes"

\* snakeDirectory has returned or thrown
DiscoveryOver ==
    \/ pc > LoadRoutesAt
    \/ pc = LoadRoutesAt /\ (phase # "" \/ status = "rejected")

\* C11: for every routes tree that can be listed, files nested two or more
\* levels deep included, discovery returns every file exactly once and no
\* directory: as many paths as there are files under the root
C11_DiscoversEveryFile ==
    (DiscoveryOver /\ ~world.unreadable) =>
        /\ Len(files) = FileCount(world.tree)
        /\ \A i, j \in 1..Len(files) : files[i] = files[j] => i = j
        /\ ~(error.name = "TypeError" /\ pc = LoadRoutesAt)

BadSlots ==
    {j \in 1..Len(options.middlewareCheckpoints.props) :
        /\ options.middlewareCheckpoints.props[j].val # Null
        /\ TypeOf(options.middlewareCheckpoints.props[j].val) # "function"}

\* C13: in every configuration that passes the other checks of option
\* resolution, whatever the view engine and whether or not the views
\* directory exists, a checkpoints object whose slots hold null or a function
\* is accepted, and a slot holding anything else ends the process with an
\* invalid-checkpoint error naming such a slot before any checkpoint
\* middleware is registered
C13_EverySlotChecked ==
    (/\ OptionsLoaded
     /\ error.kind \notin {"InvalidOption", "MissingRoutesDirectory", "InvalidViewEngine"}) =>
        /\ BadSlots = {} => error.kind # "InvalidCheckpoint"
        /\ BadSlots # {} =>
            /\ status = "exited"
            /\ error.kind = "InvalidCheckpoint"
            /\ \E j \in BadSlots : error.key = options.middlewareCheckpoints.props[j].k
            /\ ~Has("checkpoint")

\* the documented values of viewEngine
DocumentedEngines == {"none", "ejs", "pug", "nunjucks", "handlebars"}

\* option resolution got as far as the view engine, and its value is not one
\* of the documented ones
UnknownEngine ==
    /\ OptionsLoaded
    /\ SuppliedMistyped = {}
    /\ world.exists.routesDirectory
    /\ options.viewEngine.v \notin DocumentedEngines

\* C14: a viewEngine outside none, ejs, pug, nunjucks, handlebars is a fatal
\* invalid-view-engine error of option resolution when the views directory
\* exists: the process ends and no route is loaded; when the views directory
\* does not exist there is the warning about it only, no view engine is set
\* and option resolution does not fail on the value
C14_UnknownEngine ==
    UnknownEngine =>
        IF world.exists.viewsDirectory
        THEN /\ status = "exited"
             /\ pc = 1
             /\ error.kind = "InvalidViewEngine"
             /\ error.key = options.viewEngine.v
             /\ files = <<>>
             /\ routes = <<>>
             /\ ~Has("route")
             /\ listenCalls = <<>>
        ELSE /\ error.kind # "InvalidViewEngine"
             /\ "views" \in warnings
             /\ settings = NoSettings

\* viewEngine "mustache" beside an existing views directory: the process ended
C14_Witness ==
    /\ status = "exited"
    /\ error.kind = "InvalidViewEngine"
    /\ world.options.viewEngine = Str("mustache")
    /\ world.exists.viewsDirectory

\* C14 as stated: the value is fatal whatever the state of the views directory
C14_AlwaysFatal ==
    UnknownEngine =>
        /\ status = "exited"
        /\ pc = 1
        /\ error.kind = "InvalidViewEngine"
        /\ files = <<>>
        /\ routes = <<>>
        /\ listenCalls = <<>>

\* the expected type of every descriptor field, as documented
DocumentedRouteTypes ==
    [method |-> "string", path |-> "string", disabled |-> "boolean",
     developmentRoute |-> "boolean", routeMiddleware |-> "function",
     handler |-> "function"]

DocumentedMethods ==
    {"GET", "HEAD", "POST", "PUT", "DELETE", "CONNECT", "OPTIONS", "TRACE", "PATCH"}

\* every route file was imported
Imported == world.tree # <<>> /\ Len(routes) = Len(world.tree)

\* the fields the i-th descriptor supplies with a value of another type, as
\* positions of the order the fields are checked in
BadFields(i) ==
    {f \in 1..Len(RouteKeys) :
        /\ Descriptor(i)[RouteKeys[f]] # Undefined
        /\ TypeOf(Descriptor(i)[RouteKeys[f]]) # DocumentedRouteTypes[RouteKeys[f]]}

\* the method the i-th descriptor declares, GET when it declares none
MethodOf(i) == IF Descriptor(i).method = Undefined THEN "GET" ELSE Descriptor(i).method.v

\* the i-th file exports a descriptor that passes validation
ValidDescriptor(i) ==
    /\ world.tree[i].kind = "route"
    /\ BadFields(i) = {}
    /\ ToUpperCase(MethodOf(i)) \in DocumentedMethods

\* the i-th file exports a descriptor and every file before it a valid one
FirstFaulty(i) ==
    /\ Imported
    /\ i \in 1..Len(routes)
    /\ world.tree[i].kind = "route"
    /\ \A j \in 1..(i - 1) : ValidDescriptor(j)

\* C15: the first descriptor, in discovery order, with a field among method,
\* path, disabled, developmentRoute, routeMiddleware, handler whose present
\* value has the wrong type ends the process with an invalid-route error
\* that gives its index, its first such field in the order just given, and
\* the expected type; this descriptor and every later one are never bound;
\* a method of the wrong type is reported so, it is not upper-cased
C15_FirstMistypedField ==
    \A i \in 1..Len(world.tree) :
        (FirstFaulty(i) /\ BadFields(i) # {}) =>
            LET field == RouteKeys[Min(BadFields(i))]
            IN /\ \A j \in i..Len(routes) : ~Bound(j)
               /\ route < i
               /\ status # "running" =>
                    /\ status = "exited"
                    /\ error = KelpException("InvalidRoute", field,
                                             DocumentedRouteTypes[field], i - 1)
                    /\ listenCalls = <<>>

\* a.js is bound, b.js declares the method 5: the process ended on route 1,
\* field method
C15_Witness ==
    /\ Len(routes) = 2
    /\ Bound(1)
    /\ Descriptor(2).method = Num("5")
    /\ status = "exited"
    /\ error = KelpException("InvalidRoute", "method", "string", 1)

\* C15 as stated: the error identifies every field of the descriptor whose
\* value has the wrong type
C15_EveryMistypedField ==
    \A i \in 1..Len(world.tree) :
        FirstFaulty(i) =>
            \A f \in BadFields(i) :
                /\ \A j \in i..Len(routes) : ~Bound(j)
                /\ status # "running" =>
                    /\ status = "exited"
                    /\ error = KelpException("InvalidRoute", RouteKeys[f],
                                             DocumentedRouteTypes[RouteKeys[f]], i - 1)

\* C16: a descriptor with well-typed fields passes validation only if its
\* method in upper case is one of GET, HEAD, POST, PUT, DELETE, CONNECT,
\* OPTIONS, TRACE, PATCH; any other method string ends the process with an
\* invalid-route-method error that gives the route's index; a lower- or
\* mixed-case spelling of a member passes, and the declared handler is
\* invoked for the requests whose method is the upper-case form
C16_MethodEnumeration ==
    \A i \in 1..Len(world.tree) :
        (FirstFaulty(i) /\ BadFields(i) = {}) =>
            LET upper == ToUpperCase(MethodOf(i))
            IN /\ route >= i => upper \in DocumentedMethods
               /\ upper \notin DocumentedMethods =>
                    /\ \A j \in i..Len(routes) : ~Bound(j)
                    /\ status # "running" =>
                        /\ status = "exited"
                        /\ error.kind = "InvalidRouteMethod"
                        /\ error.idx = i - 1
                        /\ listenCalls = <<>>
               /\ upper \in DocumentedMethods =>
                    /\ ~(status = "exited" /\ error.idx = i - 1
                         /\ error.kind \in {"InvalidRoute", "InvalidRouteMethod"})
                    /\ CallsInto(i, {"handler"}) # {} => served.req.method = upper
                    /\ (CallsInto(i, {"routeMiddleware"}) # {}
                        /\ Behaviour(routes[i].fields.routeMiddleware) = "next"
                        /\ served.req.method = upper)
                            => CallsInto(i, {"handler"}) # {}

\* a descriptor that spells its method "Post": a POST request invoked its
\* handler
C16_Witness ==
    /\ Len(routes) = 1
    /\ Descriptor(1).method = Str("Post")
    /\ Bound(1)
    /\ served.req.method = "POST"
    /\ CallsInto(1, {"handler"}) # {}

\* the value the response carries for a header, "" when it has none
HeaderOf(name) ==
    IF \E x \in served.headers : x.name = name
    THEN (CHOOSE x \in served.headers : x.name = name).value
    ELSE ""

\* the header-injection middleware was called for the served request
Injected == Invoked("headers")

\* C17: every response that passes through the header-injection middleware
\* carries X-Powered-By "@znci/kelp"; an alwaysAddedHeaders entry named
\* x-powered-by in any letter case is not applied and a warning is emitted,
\* every other entry is set to its configured value, and the middleware
\* calls next
C17_InjectedHeaders ==
    LET props == options.alwaysAddedHeaders.props
        reserved(k) == ToUpperCase(k) = "X-POWERED-BY"
    IN /\ Injected =>
            /\ HeaderOf("x-powered-by") = "@znci/kelp"
            /\ Cardinality({x \in served.headers : x.name = "x-powered-by"}) = 1
            /\ \A j \in 1..Len(props) :
                    IF reserved(props[j].k)
                    THEN "X-Powered-By" \in warnings
                    ELSE HeaderOf(ToLowerCase(props[j].k)) = props[j].val.v
            /\ served.answered \notin {"", "headers"}
            /\ served.invoked[Len(served.invoked)].who = "headers"
                    => served.answered = "finalhandler"
       /\ "X-Powered-By" \in warnings =>
            /\ Injected
            /\ \E j \in 1..Len(props) : reserved(props[j].k)

\* X-Frame-Options: DENY and x-powered-by: evil are configured: the response
\* carries the first, the second was refused with a warning
C17_Witness ==
    /\ Injected
    /\ \E j \in 1..Len(options.alwaysAddedHeaders.props) :
            options.alwaysAddedHeaders.props[j] = Prop("x-powered-by", Str("evil"))
    /\ HeaderOf("x-frame-options") = "DENY"
    /\ HeaderOf("x-powered-by") = "@znci/kelp"
    /\ "X-Powered-By" \in warnings
    /\ Len(served.invoked) > 1

\* the paths under routes/ of the files of a listing that export a route
\* with a method kelp.js accepts
RECURSIVE RouteFiles(_, _)
RouteFiles(listing, prefix) ==
    IF listing = <<>> THEN {}
    ELSE LET n == Head(listing)
         IN (IF n.kind = "dir" THEN RouteFiles(n.children, Append(prefix, n.name))
             ELSE IF n.module.method.v \in {"GET", "POST", "PUT", "DELETE", "PATCH",
                                            "HEAD", "OPTIONS"}
             THEN {Append(prefix, n.name)}
             ELSE {})
            \cup RouteFiles(Tail(listing), prefix)

\* the app holds the route of the file at path p
Registered(p) == \E j \in 1..Len(stack) : stack[j].kind = "route" /\ stack[j].file = p

\* kelp.settings was given a port number and a list of OPTIONS, kelp.listen
\* was called and the listen callback is over
ListenDone ==
    /\ pc = Len(LegacySteps)
    /\ TypeOf(world.settings) = "object"
    /\ world.settings.PORT = Num("3193")
    /\ Truthy(world.settings.OPTIONS)
    /\ world.routes

\* C18: in kelp.js, after kelp.settings with a valid PORT and an OPTIONS list
\* and then kelp.listen, the server listens on that PORT and answers a
\* request sent to it, and when OPTIONS contains "routes" every route file
\* under routes/ is registered by the time a request is served
C18_ListensWithEveryRoute ==
    ListenDone =>
        /\ listenCalls = <<Listen("kelp", world.settings.PORT)>>
        /\ status = "running"
        /\ served # NotServed => served.answered # ""
        /\ (\E i \in 1..Len(world.settings.OPTIONS.items) :
                world.settings.OPTIONS.items[i] = "routes")
            => \A p \in RouteFiles(world.tree, <<>>) : Registered(p)

\* the public directory is absent
NoPublic == ~world.exists.publicDirectory

\* a view engine is selected and the views directory is absent
NoViews == ~world.exists.viewsDirectory /\ options.viewEngine # Str("none")

\* nothing but an optional directory is missing or wrong: the options are
\* well typed, the routes directory exists, the view engine is a documented
\* one, every checkpoint slot holds null or a function, and the routes
\* directory is a flat listing of valid descriptors that import resolves
RestSound ==
    /\ SuppliedMistyped = {}
    /\ world.exists.routesDirectory
    /\ options.viewEngine.v \in DocumentedEngines
    /\ options.middlewareCheckpoints # Null
    /\ BadSlots = {}
    /\ ~world.unreadable
    /\ \A i \in 1..Len(world.tree) : ValidDescriptor(i)
    /\ world.tree # <<>> => world.options.routesDirectory = Str("routes")

\* C19: the absence of an optional directory is not fatal.  Without the
\* public directory static serving is not registered; with a view engine
\* selected and no views directory no view engine is registered; in both
\* cases a warning is emitted, option resolution does not end the process on
\* that account, and when nothing else is wrong bootstrap goes through route
\* loading to the end of the sequence
C19_OptionalDirectories ==
    (OptionsLoaded /\ SuppliedMistyped = {} /\ world.exists.routesDirectory) =>
        /\ NoPublic => (~Has("static") /\ "public" \in warnings)
        /\ NoViews =>
            /\ settings = NoSettings
            /\ "views" \in warnings
            /\ ~(status = "exited" /\ pc = 1)
        /\ ((NoPublic \/ NoViews) /\ RestSound) =>
            /\ status \in {"running", "resolved"}
            /\ error = NoError
            /\ status = "resolved" =>
                /\ pc = Len(Steps) + 1
                /\ route = Len(routes)
                /\ Len(routes) = Len(world.tree)
                /\ \A k \in {"headers", "json", "notFound", "error"} : Has(k)

\* neither a public nor a views directory, ejs selected, one route file:
\* both warnings were emitted, the route was bound and bootstrap reached its end
C19_Witness ==
    /\ NoPublic
    /\ NoViews
    /\ warnings = {"public", "views"}
    /\ Len(routes) = 1
    /\ Bound(1)
    /\ status = "resolved"
    /\ pc = Len(Steps) + 1
    /\ ~Has("static")
    /\ settings = NoSettings

\* C20: for a bound descriptor that supplies its own routeMiddleware, every
\* request the app hands to its binding, whatever its method, runs the
\* middleware first: the declared handler and the method-not-allowed handler
\* are invoked only after it, and not at all when it does not call next
C20_RouteMiddlewareFirst ==
    \A i \in 1..Len(routes) :
        (Bound(i) /\ TypeOf(Descriptor(i).routeMiddleware) = "function") =>
            LET ran == CallsInto(i, {"routeMiddleware"})
            IN /\ HandedTo(i) => ran # {}
               /\ \A j \in CallsInto(i, Dispatch) : \E k \in ran : k < j
               /\ (ran # {} /\ Descriptor(i).routeMiddleware = Fn("userPass"))
                    => Cardinality(CallsInto(i, Dispatch)) = 1
               /\ Descriptor(i).routeMiddleware = Fn("userAnswer") =>
                    /\ CallsInto(i, Dispatch) = {}
                    /\ ran # {} =>
                        /\ served.answered = "routeMiddleware"
                        /\ ~Invoked("handler")
                        /\ ~Invoked("methodNotAllowed")

\* a POST request to a GET route whose middleware answers: the middleware
\* ran and no handler was invoked
C20_Witness ==
    /\ Len(routes) = 1
    /\ Bound(1)
    /\ Descriptor(1).routeMiddleware = Fn("userAnswer")
    /\ Descriptor(1).handler = Fn("userHandler")
    /\ served.req.method = "POST"
    /\ CallsInto(1, {"routeMiddleware"}) # {}
    /\ CallsInto(1, Dispatch) = {}
    /\ served.answered = "routeMiddleware"

\* descriptors i and j, i discovered first, are both bound, at the same path,
\* with different methods
SharedPath(i, j) ==
    /\ i < j
    /\ Bound(i)
    /\ Bound(j)
    /\ PathOf(i) = PathOf(j)
    /\ ToUpperCase(MethodOf(i)) # ToUpperCase(MethodOf(j))

\* every call a served request made into routes[i]
AnyCallInto(i) == CallsInto(i, Dispatch \cup {"routeMiddleware"})

\* C21: of two bound descriptors that share a path and declare different
\* methods, the one bound first takes every request the app hands to that
\* path.  When its routeMiddleware calls next (as the default does), a request
\* carrying the second descriptor's method invokes the method-not-allowed
\* handler through the first binding; unless its routeMiddleware leaves the
\* route with next("route"), nothing of the second descriptor is ever invoked
C21_FirstBindingAnswers ==
    \A i, j \in 1..Len(routes) :
        SharedPath(i, j) =>
            LET mw == Descriptor(i).routeMiddleware
            IN /\ HandedTo(i) => CallsInto(i, {"routeMiddleware"}) # {}
               /\ mw # Fn("userSkip") => AnyCallInto(j) = {}
               /\ (mw \in {Undefined, Fn("userPass")} /\ HandedTo(i)
                   /\ served.req.method = ToUpperCase(MethodOf(j))) =>
                        /\ CallsInto(i, {"methodNotAllowed"}) # {}
                        /\ served.answered = "methodNotAllowed"
               /\ (mw = Fn("userAnswer") /\ HandedTo(i)) =>
                        /\ served.answered = "routeMiddleware"
                        /\ CallsInto(i, Dispatch) = {}

\* a.js is GET /, b.js is POST /: a POST request was refused through a.js
\* and nothing of b.js was invoked
C21_Witness ==
    /\ Len(routes) = 2
    /\ SharedPath(1, 2)
    /\ Descriptor(1).routeMiddleware = Undefined
    /\ Descriptor(2).method = Str("POST")
    /\ served.req.method = "POST"
    /\ CallsInto(1, {"methodNotAllowed"}) # {}
    /\ AnyCallInto(2) = {}

\* C21 as stated: whatever the first descriptor's routeMiddleware does, a
\* request with the second's method invokes the method-not-allowed handler
\* through the first binding and the second's handler is never invoked
C21_FirstAlwaysRefuses ==
    \A i, j \in 1..Len(routes) :
        SharedPath(i, j) =>
            /\ CallsInto(j, {"handler"}) = {}
            /\ (HandedTo(i) /\ served.req.method = ToUpperCase(MethodOf(j)))
                    => CallsInto(i, {"methodNotAllowed"}) # {}

\* the files of a routes tree by their path under the routes directory, in
\* depth-first pre-order, each directory's entries in listing order
RECURSIVE PreOrder(_, _)
PreOrder(listing, prefix) ==
    IF listing = <<>> THEN <<>>
    ELSE (IF Head(listing).kind = "dir"
          THEN PreOrder(Head(listing).children, Append(prefix, Head(listing).name))
          ELSE <<Append(prefix, Head(listing).name)>>)
         \o PreOrder(Tail(listing), prefix)

\* path p ends with the relative path rel
EndsWith(p, rel) ==
    /\ Len(p) >= Len(rel)
    /\ SubSeq(p, Len(p) - Len(rel) + 1, Len(p)) = rel

\* the positions of the app's stack that hold a route binding
Bindings == {j \in 1..Len(stack) : stack[j].kind = "route"}

\* C22: discovery yields the files in depth-first pre-order, the files of a
\* subdirectory at the place of the subdirectory's entry; descriptors are
\* bound in that order, so the bindings on the app stand in discovery order
C22_PreOrderDiscovery ==
    (DiscoveryOver /\ ~world.unreadable) =>
        LET expected == PreOrder(world.tree, <<>>)
        IN /\ Len(files) = Len(expected)
           /\ \A k \in 1..Len(files) : EndsWith(files[k], expected[k])
           /\ \A a, b \in Bindings : a < b => stack[a].idx < stack[b].idx

\* the routes directory cannot be listed, or it holds a file whose import
\* throws
LoadFails == world.unreadable \/ \E i \in 1..Len(world.tree) : world.tree[i].kind = "broken"

\* the first file that is not a valid descriptor is one that imports but has
\* no default export
FirstWithoutDefault(i) ==
    /\ Imported
    /\ i \in 1..Len(world.tree)
    /\ world.tree[i].kind = "nodefault"
    /\ \A j \in 1..(i - 1) : ValidDescriptor(j)

\* the run went into route loading and has ended
LoadingEnded == pc >= LoadRoutesAt /\ status # "running"

\* C23: when listing the routes directory fails, or the import of a
\* discovered file throws, bootstrap aborts: no route is bound, no later step
\* runs, listen is never called.  A module that imports but has no default
\* export aborts bootstrap too, but inside the per-descriptor loop: the valid
\* descriptors before it that pass the gates are bound by then, it and the
\* later ones are not
C23_LoadFailureAborts ==
    /\ LoadFails =>
        /\ ~Has("route")
        /\ listenCalls = <<>>
        /\ pc <= LoadRoutesAt
        /\ status # "resolved"
        /\ \A k \in {"json", "urlencoded", "cookieParser", "notFound", "error"} : ~Has(k)
        /\ LoadingEnded => (status = "rejected" /\ error.name \in {"Error", "TypeError"})
    /\ \A i \in 1..Len(world.tree) :
        FirstWithoutDefault(i) =>
            /\ listenCalls = <<>>
            /\ pc <= LoadRoutesAt
            /\ \A j \in i..Len(routes) : ~Bound(j)
            /\ LoadingEnded =>
                /\ status = "rejected"
                /\ error.name = "TypeError"
                /\ \A j \in 1..(i - 1) :
                        Bound(j) <=> ShouldBind(routes[j].fields, options.environment)

\* a.js is a descriptor, the import of b.js throws: bootstrap was rejected
\* with nothing bound
C23_Witness ==
    /\ Len(world.tree) = 2
    /\ world.tree[1].kind = "route"
    /\ world.tree[2].kind = "broken"
    /\ Len(files) = 2
    /\ status = "rejected"
    /\ pc = LoadRoutesAt
    /\ ~Has("route")

\* C23 as stated: a file that does not load as a route module, one without a
\* default export included, leaves no route bound
C23_NothingBound ==
    (LoadFails \/ \E i \in 1..Len(world.tree) : world.tree[i].kind = "nodefault") =>
        /\ ~Has("route")
        /\ listenCalls = <<>>
        /\ pc <= LoadRoutesAt

\* the i-th file exports a descriptor that leaves out method or path
OmitsRequired(i) ==
    /\ world.tree[i].kind = "route"
    /\ (Descriptor(i).method = Undefined \/ Descriptor(i).path = Undefined)

\* C24: method and path are required: a descriptor that omits either does
\* not pass validation and is never bound; only disabled, developmentRoute
\* and routeMiddleware are filled with defaults
C24_MethodAndPathRequired ==
    \A i \in 1..Len(routes) :
        OmitsRequired(i) =>
            /\ ~Bound(i)
            /\ route < i
            /\ routes[i].fields.method = Descriptor(i).method
            /\ routes[i].fields.path = Descriptor(i).path

\* the positions of the app's stack that hold a component able to answer a
\* request
Answering ==
    {j \in 1..Len(stack) : stack[j].kind \in {"static", "route", "notFound", "error"}}

\* C25: the headers of alwaysAddedHeaders are on every response the app
\* sends: the header-injection middleware stands in the stack before every
\* component that can answer (static files, bound routes, the not-found
\* handler, the error handler), and every answered request went through it
C25_HeadersOnEveryResponse ==
    /\ \A a \in Answering :
            \E h \in 1..(a - 1) : stack[h].kind = "headers"
    /\ served.answered # "" =>
            /\ Injected
            /\ HeaderOf("x-powered-by") = "@znci/kelp"
            /\ \A j \in 1..Len(options.alwaysAddedHeaders.props) :
                    LET p == options.alwaysAddedHeaders.props[j]
                    IN ToUpperCase(p.k) # "X-POWERED-BY"
                            => HeaderOf(ToLowerCase(p.k)) = p.val.v

\* bootstrap was ended by the validation of a descriptor
ValidationEnded ==
    /\ status = "exited"
    /\ error.kind \in {"InvalidRoute", "InvalidRouteMethod"}

\* the i-th descriptor as exported passes the disabled and developmentRoute
\* gates of the resolved environment
PassesGates(i) ==
    /\ ~Truthy(Descriptor(i).disabled)
    /\ \/ ~Truthy(Descriptor(i).developmentRoute)
       \/ options.environment = Str("development")

\* C26: validation and binding are interleaved per descriptor: when the
\* descriptor at index k fails validation and the process terminates, every
\* descriptor before k that passes the disabled/developmentRoute gates is
\* already bound on the app, and no descriptor at index k or later is bound
C26_BoundUpToFailure ==
    ValidationEnded =>
        LET k == error.idx + 1
        IN /\ k \in 1..Len(routes)
           /\ route = k - 1
           /\ \A j \in 1..(k - 1) : Bound(j) <=> PassesGates(j)
           /\ \A j \in k..Len(routes) : ~Bound(j)
           /\ Cardinality(Bindings) = Cardinality({j \in 1..(k - 1) : PassesGates(j)})

\* a.js passes the gates, b.js declares the method "fetch": the process ended
\* at b.js with a.js bound
C26_Witness ==
    /\ Len(routes) = 2
    /\ ValidationEnded
    /\ error.idx = 1
    /\ PassesGates(1)
    /\ Bound(1)
    /\ ~Bound(2)

\* the built-in parsing middleware
Parsers == {"json", "urlencoded", "cookieParser"}

\* the served request went through a built-in parser or through the
\* middleware of a checkpoint after beforeRouteLoad
WentPastRoutes ==
    \E j \in 1..Len(served.invoked) :
        \/ served.invoked[j].who \in Parsers
        \/ /\ served.invoked[j].who = "checkpoint"
           /\ served.invoked[j].name # "beforeRouteLoad"

\* in the app's stack every route binding stands before the built-in parsers
\* and before the middleware of every checkpoint after beforeRouteLoad
RoutesBeforeParsers ==
    \A a \in Bindings : \A b \in 1..Len(stack) :
        (\/ stack[b].kind \in Parsers
         \/ stack[b].kind = "checkpoint" /\ stack[b].name # "beforeRouteLoad")
            => a < b

\* C27: every route binding precedes the built-in JSON, urlencoded and
\* cookie parsers in the app's stack.  A request handed to a bound route
\* whose routeMiddleware calls next is answered by that route's dispatch
\* logic, and one whose routeMiddleware answers is answered there, in both
\* cases without passing a parser or a checkpoint after beforeRouteLoad; a
\* routeMiddleware that leaves the route with next("route") sends the request
\* on, past the bindings, into the later checkpoints and the parsers
C27_RoutesBeforeParsers ==
    /\ RoutesBeforeParsers
    /\ \A i \in 1..Len(routes) :
        HandedTo(i) =>
            LET mw == routes[i].fields.routeMiddleware
            IN /\ Behaviour(mw) = "next" =>
                    /\ served.answered \in Dispatch
                    /\ Cardinality(CallsInto(i, Dispatch)) = 1
                    /\ ~WentPastRoutes
               /\ Behaviour(mw) = "end" =>
                    /\ served.answered = "routeMiddleware"
                    /\ ~WentPastRoutes
               /\ (Behaviour(mw) = "route" /\ served.answered \notin Dispatch \cup {"routeMiddleware"}) =>
                    /\ CallsInto(i, Dispatch) = {}
                    /\ Has("json") => Invoked("json")

\* a.js is POST / with the default routeMiddleware and afterRouteLoad holds
\* a middleware: a POST request to / with a malformed body was answered by
\* the handler of a.js, no parser and no checkpoint having seen it
C27_Witness ==
    /\ Len(routes) = 1
    /\ SlotEntry("afterRouteLoad") # <<>>
    /\ Has("json")
    /\ HandedTo(1)
    /\ Descriptor(1).routeMiddleware = Undefined
    /\ served.req.badBody
    /\ served.answered = "handler"
    /\ ~WentPastRoutes

\* C27 as stated: whatever its routeMiddleware does, a request that matches
\* a bound route is answered by that route's dispatch logic and passes no
\* parser and no checkpoint after beforeRouteLoad
C27_DispatchAlwaysAnswers ==
    /\ RoutesBeforeParsers
    /\ \A i \in 1..Len(routes) :
        HandedTo(i) =>
            /\ served.answered \in Dispatch
            /\ ~WentPastRoutes

\* the checkpoints that are registered after the not-found handler
LateCheckpoints ==
    {"after404Register", "beforeErrorRegister", "afterErrorRegister", "beforeServe"}

\* the served request raised an error: its body was malformed and the JSON
\* parser saw it
RaisedError == served.req.badBody /\ Invoked("json")

\* the middleware of a late checkpoint was invoked for the served request
LateInvoked ==
    \E j \in 1..Len(served.invoked) :
        served.invoked[j].who = "checkpoint" /\ served.invoked[j].name \in LateCheckpoints

\* the served request matched no bound route and every middleware before the
\* not-found handler passed it on
PassedOn ==
    /\ served # NotServed
    /\ \A j \in Bindings : ~PathMatches(stack[j].name, served.req.path)
    /\ served.answered \notin {"static", "checkpoint"}

\* C28: the default notFoundHandler answers every request it is given and
\* never calls next: with it, the middleware of the checkpoints
\* after404Register, beforeErrorRegister, afterErrorRegister and beforeServe
\* is never invoked for a request that raised no error, and every such
\* request that matches no bound route and is passed on by the earlier
\* middleware is answered by it with status 404
C28_NotFoundEndsTheStack ==
    (options.notFoundHandler = Fn("defaultNotFound") /\ ~RaisedError) =>
        /\ ~LateInvoked
        /\ PassedOn =>
            /\ served.answered = "notFound"
            /\ served.code = "404"
            /\ served.invoked[Len(served.invoked)] = Call("notFound", "", 0)

\* after404Register holds a middleware and the notFoundHandler is the
\* default: a request was answered 404 by the not-found handler and the
\* middleware was not invoked
C28_Witness ==
    /\ options.notFoundHandler = Fn("defaultNotFound")
    /\ \E j \in 1..Len(stack) :
            stack[j].kind = "checkpoint" /\ stack[j].name = "after404Register"
    /\ PassedOn
    /\ ~RaisedError
    /\ served.answered = "notFound"
    /\ served.code = "404"
    /\ ~LateInvoked

\* the options whose documented type is "object"
ObjectOptions == {"middlewareCheckpoints", "alwaysAddedHeaders"}

\* the caller supplied null for an object-typed option and nothing mistyped
NullForObject(k) ==
    /\ world.options[k] = Null
    /\ SuppliedMistyped = {}

\* the step of the first checkpoint lookup
FirstCheckpointAt ==
    CHOOSE n \in 1..Len(Steps) : Steps[n] = Step("checkpoint", "beforeRouteLoad")

\* C29: null supplied for middlewareCheckpoints or alwaysAddedHeaders passes
\* the option type check: it is not reported as an invalid option and stays
\* null in the resolved options.  With middlewareCheckpoints null, bootstrap
\* then fails at the first checkpoint lookup, with an exception that is not
\* a KelpException and without the process-exit path
C29_NullPassesTypeCheck ==
    /\ \A k \in ObjectOptions :
        (OptionsLoaded /\ world.options[k] = Null) =>
            /\ options[k] = Null
            /\ ~(error.kind = "InvalidOption" /\ error.key = k)
            /\ SuppliedMistyped = {} => error.kind # "InvalidOption"
    /\ (pc > 1 /\ world.options.middlewareCheckpoints = Null) =>
            /\ pc <= FirstCheckpointAt
            /\ ~Has("route") /\ ~Has("checkpoint") /\ ~Has("notFound")
            /\ listenCalls = <<>>
            /\ status # "resolved"
            /\ (pc = FirstCheckpointAt /\ status # "running") =>
                /\ status = "rejected"
                /\ error.name = "TypeError"
                /\ error.name # "KelpException"
            /\ status = "exited" => pc < FirstCheckpointAt

\* middlewareCheckpoints is null: options resolved, the header middleware
\* was registered, and bootstrap was rejected with a TypeError at the
\* beforeRouteLoad lookup
C29_Witness ==
    /\ NullForObject("middlewareCheckpoints")
    /\ pc = FirstCheckpointAt
    /\ Has("headers")
    /\ status = "rejected"
    /\ error.name = "TypeError"

\* the keys the caller supplied
Supplied == {k \in OptionKeySet : world.options[k] # Undefined}

\* C30: option resolution writes into the caller's options object: from the
\* end of loadOptions on, whether it ended in an error or not, the object
\* holds every recognized key, every key the caller supplied keeps its
\* supplied value, every absent key holds its default, and no later
\* bootstrap step or request changes it
C30_OptionsWrittenOnce ==
    /\ ~OptionsLoaded => options = world.options
    /\ OptionsLoaded =>
        /\ DOMAIN options = OptionKeySet
        /\ \A k \in OptionKeySet :
            /\ options[k] # Undefined
            /\ k \in Supplied => options[k] = world.options[k]
            /\ k \notin Supplied => options[k] = defaultOptions[k]

\* the caller supplied null for alwaysAddedHeaders and no port: bootstrap
\* finished and a request was served with the options still holding the null
\* and the default port
C30_Witness ==
    /\ status = "resolved"
    /\ served # NotServed
    /\ Supplied = {"alwaysAddedHeaders"}
    /\ options.alwaysAddedHeaders = Null
    /\ options.port = defaultOptions.port
    /\ options # world.options

====
